---------------------------- MODULE Spec2Model ----------------------------
(***************************************************************************)
(* Model of the citation localisation and highlighting engine of rag_pdf:  *)
(* pdf_highlighter.py (_normalize_text, _get_color_for_citation,           *)
(* PageLocationCitation.from_generic, highlight_pdf) and                   *)
(* structured_pipeline.py (_find_offsets, two_pass_provenance_resolution). *)
(*                                                                         *)
(* A Python str is a sequence of one-character strings.  The character     *)
(* U+0002 is written "STX".  Python's None is the model value None.        *)
(***************************************************************************)
EXTENDS Integers, Sequences, FiniteSets, TLC

VARIABLES
    nt_pc,      \* _normalize_text driver: "in", "once", "twice"
    nt_s,       \* the raw string handed to _normalize_text
    nt_out,     \* _normalize_text(nt_s)
    nt_out2,    \* _normalize_text(nt_out)
    rq_pc,      \* two_pass_provenance_resolution: "idle", "done" (a quote was resolved)
    rq_linear,  \* linear_text
    rq_pages,   \* pages = _load_parsed_doc_pages(filename)
    rq_quote,   \* quote = obj.get('quote') or ''
    rq_res,     \* the record resolve_quote returns
    rq_calls,   \* the texts _find_offsets was called on: 0 = linear_text, i = page i
    gc_pc,          \* _get_color_for_citation driver: "in", "done"
    gc_citation,    \* the citation's color and entity_type
    gc_result,      \* what the call produced: <<"ok", rgb>> or <<"KeyError">>
    ENTITY_COLORS,  \* module-level dict entity type -> RGB
    COLOR_NAMES,    \* module-level dict color name -> RGB
    fg_pc,      \* from_generic driver: "in", "done"
    fg_obj,     \* the citation record handed to from_generic
    fg_result,  \* <<"ok", citation>> or <<"ValueError">>
    hl_pc,          \* highlight_pdf: "loop" (for cit), "pages" (for page_num), "search",
                    \* "finish" (after the candidates), "done" (returned), "error" (raised)
    hl_doc,         \* doc = fitz.open(pdf_path): the pages, each a sequence of blocks
    hl_unparsed,    \* items of the citations argument not yet normalised
    hl_item,        \* the dict last handed to from_generic, if any
    hl_opened,      \* whether fitz.open has been called
    hl_remaining,   \* citations of norm_citations not yet reached
    hl_cit,         \* cit, the citation being processed
    hl_page_num,    \* page_num (0-based)
    hl_end_idx,     \* end_idx
    hl_cands,       \* the candidates of this page not yet tried
    hl_hit_this_page,
    hl_found_exact_match,
    hl_per_page_hits,   \* dict 1-based page number -> hits
    hl_annots,      \* the number of annotations in the document, per page
    hl_added,       \* the annotations the latest step added, in order
    hl_saved,       \* how often doc.save ran
    hl_summary,     \* the returned summary, None before the return
    hl_searched,    \* 1-based numbers of the pages doc[page_num] was read for, this citation
    hl_rects_found, \* rectangles page.search_for returned for this citation on this page
    hl_fuzzy_called,\* _fuzzy_rectangle_highlight was called for this citation on this page
    hl_fuzzy_hits   \* what that call returned

VARIABLES
    lc_pc,          \* load_citations_from_json: "off", "in", "done"
    lc_arg,         \* path_or_json, as its JSON tokens
    lc_file,        \* what open(path_or_json) gives
    lc_result,      \* the list returned, or the exception raised
    lc_tried        \* the sources read, in order: "file", "inline"

VARIABLES
    od_pc,          \* two calls of highlight_pdf: "off", "in", "first", "done"
    od_doc,         \* the document both calls open
    od_cits,        \* the citations of the first call
    od_env,         \* which searches raise and which annotations fail
    od_perm,        \* the order in which the second call gets the citations
    od_first,       \* summary and annotations of the first call
    od_second       \* summary and annotations of the second call

VARIABLES
    mc_pc,          \* merge_and_chunk: "off", "in", "done"
    mc_docs,        \* docs
    mc_remove,      \* remove_first_page
    mc_result       \* the chunks returned

VARIABLES
    cc_pc,          \* clean_content: "off", "in", "done"
    cc_pieces,      \* pieces
    cc_result       \* the list returned

VARIABLES
    cs_pc,          \* _candidate_snippets: "off", "in", "done"
    cs_full,        \* full
    cs_result       \* the candidates returned

VARIABLES
    rp_pc,          \* run_pipeline: "off", "files", "done"
    rp_remove,      \* settings.remove_first_page
    rp_include_text,\* settings.include_text_extraction
    rp_skip_text,   \* skip_text
    rp_skip_vision, \* skip_vision
    rp_todo,        \* the files of list_pdfs not yet processed
    rp_docs,        \* docs
    rp_images,      \* len(images) of each doc
    rp_analyzed,    \* for each doc, the page numbers of images_for_vision that were analysed
    rp_parsed,      \* what json.dump wrote to parsed_json_path
    rp_pieces,      \* pieces
    rp_cleaned      \* cleaned

VARIABLES
    rc_pc,          \* run_concurrently: "off", "run", "returned", "raised"
    rc_n,           \* the number of callables
    rc_max_workers, \* max_workers
    rc_futures,     \* futures: state "pending", "running", "finished", and outcome
    rc_finished,    \* the futures in the order in which they finished
    rc_yielded,     \* the futures as_completed has yielded, in order
    rc_results      \* the list returned, or the exception raised

ntVars == <<nt_pc, nt_s, nt_out, nt_out2>>
rqVars == <<rq_pc, rq_linear, rq_pages, rq_quote, rq_res, rq_calls>>
gcVars == <<gc_pc, gc_citation, gc_result, ENTITY_COLORS, COLOR_NAMES>>
fgVars == <<fg_pc, fg_obj, fg_result>>
hlVars == <<hl_pc, hl_doc, hl_remaining, hl_cit, hl_page_num, hl_end_idx, hl_cands,
            hl_hit_this_page, hl_found_exact_match, hl_per_page_hits, hl_annots, hl_added,
            hl_saved, hl_summary, hl_searched, hl_rects_found, hl_fuzzy_called,
            hl_fuzzy_hits, hl_unparsed, hl_item, hl_opened>>
\* What the loop over the citations leaves alone.
hlInput == <<hl_unparsed, hl_item, hl_opened>>
lcVars == <<lc_pc, lc_arg, lc_file, lc_result, lc_tried>>
\* The machines of the first five specifications, and the later ones.
oldVars == <<ntVars, rqVars, gcVars, fgVars, hlVars>>
odVars == <<od_pc, od_doc, od_cits, od_env, od_perm, od_first, od_second>>
mcVars == <<mc_pc, mc_docs, mc_remove, mc_result>>
ccVars == <<cc_pc, cc_pieces, cc_result>>
csVars == <<cs_pc, cs_full, cs_result>>
rpVars == <<rp_pc, rp_remove, rp_include_text, rp_skip_text, rp_skip_vision, rp_todo,
           rp_docs, rp_images, rp_analyzed, rp_parsed, rp_pieces, rp_cleaned>>
rcVars == <<rc_pc, rc_n, rc_max_workers, rc_futures, rc_finished, rc_yielded, rc_results>>
tailVars == <<rpVars, rcVars>>
lastVars == <<ccVars, csVars, tailVars>>
newVars == <<lcVars, odVars, mcVars, lastVars>>
vars == <<oldVars, newVars>>

\* Python's None and a present value v: optional fields hold None or Some(v).
None == <<>>
Some(v) == <<v>>

(***************************************************************************)
(* Strings                                                                 *)
(***************************************************************************)

\* Longest raw string handed to _normalize_text.
MaxNormLen == 5

\* Characters of the raw strings: a letter, hyphen, space, tab, line break, U+0002.
NormAlphabet == {"a", "-", " ", "\t", "\n", "STX"}

\* What Python's \s and str.strip() treat as whitespace, within the alphabets used.
IsSpace(c) == c \in {" ", "\t", "\n"}

\* All sequences over S of length at most n.
SeqsUpTo(S, n) == UNION {[1..k -> S] : k \in 0..n}

\* t.replace(old, new) for a one-character old.
ReplaceChar(t, old, new) == [i \in 1..Len(t) |-> IF t[i] = old THEN new ELSE t[i]]

\* The characters of t.
CharsOf(t) == {t[i] : i \in 1..Len(t)}

\* Length of the longest prefix of t whose characters are all in S (inside) or
\* all outside S (~inside).
PrefixLen(t, S, inside) ==
    Cardinality({i \in 1..Len(t) : \A j \in 1..i : (t[j] \in S) = inside})

\* Length of the maximal run of whitespace at the start of t.
WsRunLen(t) == PrefixLen(t, {c \in CharsOf(t) : IsSpace(c)}, TRUE)

\* re.sub(r"-\s*\n", "", t): leftmost non-overlapping matches; the greedy \s*
\* backtracks to the last line break of the whitespace run that follows the hyphen.
\* The characters before the first hyphen are copied in one step.
RECURSIVE Dehyphenate(_)
Dehyphenate(t) ==
    IF t = <<>> THEN <<>>
    ELSE IF Head(t) = "-"
         THEN LET rest == Tail(t)
                  run  == WsRunLen(rest)
                  nls  == {k \in 1..run : rest[k] = "\n"}
              IN  IF nls # {}
                  THEN LET last == CHOOSE k \in nls : \A j \in nls : j <= k
                       IN  Dehyphenate(SubSeq(rest, last + 1, Len(rest)))
                  ELSE <<"-">> \o Dehyphenate(rest)
         ELSE LET n == PrefixLen(t, {"-"}, FALSE)
              IN  SubSeq(t, 1, n) \o Dehyphenate(SubSeq(t, n + 1, Len(t)))

\* re.sub(r"\s+", " ", t); the characters between two runs of whitespace are
\* copied in one step.
RECURSIVE CollapseWs(_)
CollapseWs(t) ==
    IF t = <<>> THEN <<>>
    ELSE IF IsSpace(Head(t))
         THEN <<" ">> \o CollapseWs(SubSeq(t, WsRunLen(t) + 1, Len(t)))
         ELSE LET n == PrefixLen(t, {c \in CharsOf(t) : IsSpace(c)}, FALSE)
              IN  SubSeq(t, 1, n) \o CollapseWs(SubSeq(t, n + 1, Len(t)))

\* t.strip()
Strip(t) ==
    LET keep == {i \in 1..Len(t) : ~IsSpace(t[i])}
    IN  IF keep = {} THEN <<>>
        ELSE LET lo == CHOOSE i \in keep : \A j \in keep : i <= j
                 hi == CHOOSE i \in keep : \A j \in keep : j <= i
             IN  SubSeq(t, lo, hi)

\* Mutant of _normalize_text: U+0002 is replaced last, after the trim.
NormalizeStxLast(t) ==
    LET t2 == Dehyphenate(t)
        t3 == ReplaceChar(t2, "\n", " ")
        t4 == CollapseWs(t3)
    IN  ReplaceChar(Strip(t4), "STX", " ")

_normalize_text(t) ==
    LET t1 == ReplaceChar(t, "STX", " ")
        t2 == Dehyphenate(t1)
        t3 == ReplaceChar(t2, "\n", " ")
        t4 == CollapseWs(t3)
    IN  Strip(t4)

(***************************************************************************)
(* _candidate_snippets                                                     *)
(***************************************************************************)

Min(a, b) == IF a <= b THEN a ELSE b
Max(a, b) == IF a >= b THEN a ELSE b

\* What Python's \w matches, within the alphabets used.
IsWordChar(c) == c \in {"a", "b", "c", "d", "e", "x", "A", "B", "0", "1", "_"}

\* The characters norm.strip("\"'“”‘’()[]{}") removes; the four curly quotes are
\* written LDQ, RDQ, LSQ, RSQ.
QuoteChars == {"\"", "'", "LDQ", "RDQ", "LSQ", "RSQ", "(", ")", "[", "]", "{", "}"}

\* t.strip(chars)
StripChars(t, chars) ==
    LET keep == {i \in 1..Len(t) : t[i] \notin chars}
    IN  IF keep = {} THEN <<>>
        ELSE LET lo == CHOOSE i \in keep : \A j \in keep : i <= j
                 hi == CHOOSE i \in keep : \A j \in keep : j <= i
             IN  SubSeq(t, lo, hi)

\* Length of the longest prefix of t whose characters satisfy: in WordChars or in more.
TokenRunLen(t, more) ==
    PrefixLen(t, {c \in CharsOf(t) : IsWordChar(c) \/ c \in more}, TRUE)

\* re.findall of \w followed by any number of characters that are \w or in more:
\* r"\w+" with more = {}, r"\w[\w%:/.-]*" with more = {"%", ":", "/", ".", "-"}.
RECURSIVE FindTokens(_, _)
FindTokens(t, more) ==
    IF t = <<>> THEN <<>>
    ELSE IF IsWordChar(Head(t))
         THEN LET n == 1 + TokenRunLen(Tail(t), more)
              IN  <<SubSeq(t, 1, n)>> \o FindTokens(SubSeq(t, n + 1, Len(t)), more)
         ELSE LET n == PrefixLen(t, {c \in CharsOf(t) : IsWordChar(c)}, FALSE)
              IN  FindTokens(SubSeq(t, n + 1, Len(t)), more)

\* [w for w in ws if len(w) > n]
RECURSIVE LongerThan(_, _)
LongerThan(ws, n) ==
    IF ws = <<>> THEN <<>>
    ELSE (IF Len(Head(ws)) > n THEN <<Head(ws)>> ELSE <<>>) \o LongerThan(Tail(ws), n)

\* sorted(ws, key=len, reverse=True)[:n]: the sort is stable, so among words of
\* the same length the earlier one comes first.
RECURSIVE LongestFirst(_, _)
LongestFirst(ws, n) ==
    IF n = 0 \/ ws = <<>> THEN <<>>
    ELSE LET i == CHOOSE k \in 1..Len(ws) :
                     /\ \A j \in 1..Len(ws) : Len(ws[j]) <= Len(ws[k])
                     /\ \A j \in 1..(k - 1) : Len(ws[j]) < Len(ws[k])
         IN  <<ws[i]>> \o LongestFirst(SubSeq(ws, 1, i - 1) \o SubSeq(ws, i + 1, Len(ws)), n - 1)

\* " ".join(ws)
RECURSIVE JoinSpace(_)
JoinSpace(ws) ==
    IF ws = <<>> THEN <<>>
    ELSE IF Len(ws) = 1 THEN ws[1]
         ELSE ws[1] \o <<" ">> \o JoinSpace(Tail(ws))

InSeq(x, xs) == \E i \in 1..Len(xs) : xs[i] = x

\* Mutant of AppendIf: the candidate is appended whatever the condition.
AppendAlways(xs, x, cond) == Append(xs, x)

\* candidates.append(x) unless the condition fails
AppendIf(xs, x, cond) == IF cond THEN Append(xs, x) ELSE xs

_candidate_snippets(full) ==
    IF full = <<>> THEN <<>>
    ELSE LET norm == _normalize_text(full)
         IN  IF norm = <<>> THEN <<>>
             ELSE LET c1 == <<norm>>
                      head == SubSeq(norm, 1, Min(200, Len(norm)))
                      q == Len(norm) \div 4
                      mid == SubSeq(norm, q + 1, Min(q + 200, Len(norm)))
                      c2 == IF Len(norm) > 300
                            THEN AppendIf(Append(c1, head), mid, ~InSeq(mid, Append(c1, head)))
                            ELSE c1
                      stripped == StripChars(norm, QuoteChars)
                      c3 == AppendIf(c2, stripped, stripped # <<>> /\ ~InSeq(stripped, c2))
                      words == LongerThan(FindTokens(norm, {"%", ":", "/", ".", "-"}), 4)
                      top == LongestFirst(words, 6)
                      phrase == JoinSpace(SubSeq(top, 1, Min(4, Len(top))))
                  IN  AppendIf(c3, phrase,
                               words # <<>> /\ Len(phrase) > 20 /\ ~InSeq(phrase, c3))

(***************************************************************************)
(* Colors: ENTITY_COLORS, COLOR_NAMES and _get_color_for_citation          *)
(* An RGB component is written in halves: <<2, 1, 0>> is (1, 0.5, 0).      *)
(***************************************************************************)

EntityColorsTable ==
    [e \in {"variable", "method", "result", "conclusion", "data", "reference", "default"} |->
        CASE e = "variable"   -> <<2, 2, 0>>
          [] e = "method"     -> <<0, 2, 0>>
          [] e = "result"     -> <<0, 1, 2>>
          [] e = "conclusion" -> <<2, 1, 0>>
          [] e = "data"       -> <<2, 0, 2>>
          [] e = "reference"  -> <<1, 1, 1>>
          [] e = "default"    -> <<2, 2, 0>>]

ColorNamesTable ==
    [c \in {"yellow", "green", "blue", "red", "purple", "orange", "magenta", "cyan", "gray"} |->
        CASE c = "yellow"  -> <<2, 2, 0>>
          [] c = "green"   -> <<0, 2, 0>>
          [] c = "blue"    -> <<0, 1, 2>>
          [] c = "red"     -> <<2, 0, 0>>
          [] c = "purple"  -> <<1, 0, 2>>
          [] c = "orange"  -> <<2, 1, 0>>
          [] c = "magenta" -> <<2, 0, 2>>
          [] c = "cyan"    -> <<0, 2, 2>>
          [] c = "gray"    -> <<1, 1, 1>>]

\* str.lower() on the color and entity strings the model uses.
Lower(str) ==
    CASE str = "RED"     -> "red"
      [] str = "Blue"    -> "blue"
      [] str = "METHOD"  -> "method"
      [] str = "Result"  -> "result"
      [] str = "DEFAULT" -> "default"
      [] OTHER           -> str

\* str.upper() on the same strings.
Upper(str) ==
    CASE str \in {"red", "RED"}            -> "RED"
      [] str \in {"blue", "Blue"}          -> "BLUE"
      [] str \in {"method", "METHOD"}      -> "METHOD"
      [] str \in {"result", "Result"}      -> "RESULT"
      [] str \in {"default", "DEFAULT"}    -> "DEFAULT"
      [] str = "note"                      -> "NOTE"
      [] OTHER                             -> str

\* Truth value of an optional str: None and '' are false.
TruthyStr(opt) == opt # None /\ opt[1] # ""

\* Truth value of an optional int: None and 0 are false.
TruthyInt(opt) == opt # None /\ opt[1] # 0

\* table[key]: a missing key raises KeyError.
Lookup(table, key) ==
    IF key \in DOMAIN table THEN <<"ok", table[key]>> ELSE <<"KeyError">>

\* Mutant of _get_color_for_citation: the entity type is looked at first.
GetColorEntityFirst(citation, entity_colors, color_names) ==
    IF TruthyStr(citation.entity_type) /\ Lower(citation.entity_type[1]) \in DOMAIN entity_colors
    THEN Lookup(entity_colors, Lower(citation.entity_type[1]))
    ELSE IF TruthyStr(citation.color) /\ Lower(citation.color[1]) \in DOMAIN color_names
         THEN Lookup(color_names, Lower(citation.color[1]))
         ELSE Lookup(entity_colors, "default")

_get_color_for_citation(citation, entity_colors, color_names) ==
    IF TruthyStr(citation.color) /\ Lower(citation.color[1]) \in DOMAIN color_names
    THEN Lookup(color_names, Lower(citation.color[1]))
    ELSE IF TruthyStr(citation.entity_type) /\ Lower(citation.entity_type[1]) \in DOMAIN entity_colors
         THEN Lookup(entity_colors, Lower(citation.entity_type[1]))
         ELSE Lookup(entity_colors, "default")

\* Values of citation.color: absent, empty, color names in several cases, strings
\* that name no color.
ColorValues ==
    {None} \cup {Some(c) : c \in DOMAIN ColorNamesTable \cup {"", "RED", "Blue", "pink", "method", "default"}}

\* Values of citation.entity_type, likewise.
EntityValues ==
    {None} \cup {Some(e) : e \in DOMAIN EntityColorsTable \cup {"", "METHOD", "Result", "DEFAULT", "note", "red"}}

GetColor ==
    /\ gc_pc = "in"
    /\ gc_result' = _get_color_for_citation(gc_citation, ENTITY_COLORS, COLOR_NAMES)
    /\ gc_pc' = "done"
    /\ UNCHANGED <<gc_citation, ENTITY_COLORS, COLOR_NAMES, ntVars, rqVars, fgVars, hlVars, newVars>>

(***************************************************************************)
(* PageLocationCitation.from_generic                                       *)
(***************************************************************************)

\* Largest page number a citation record carries.
MaxPageNo == 2

\* Truth value of an optional text (a str held as its characters): None and ''
\* are false.
TruthyText(opt) == opt # None /\ opt[1] # <<>>

\* x or y, on optional strs, optional texts and optional ints.
OrStr(x, y) == IF TruthyStr(x) THEN x ELSE y
OrText(x, y) == IF TruthyText(x) THEN x ELSE y
OrInt(x, y) == IF TruthyInt(x) THEN x ELSE y

\* obj.get("page_location") or {} : an absent location reads as all-absent.
NoLocation ==
    [start_page_number |-> None, page_number |-> None, end_page_number |-> None]

\* Mutant of from_generic: a record without a start page gets page 1.
FromGenericDefaultPage(obj) ==
    LET cited_text == OrText(OrText(obj.cited_text, obj.text), Some(<<>>))
        sp0 == OrInt(OrInt(obj.start_page_number, obj.page_number), obj.page)
        ep0 == obj.end_page_number
        loc == IF obj.page_location = None THEN NoLocation ELSE obj.page_location[1]
        sp1 == IF sp0 = None THEN OrInt(loc.start_page_number, loc.page_number) ELSE sp0
        sp  == IF sp1 = None THEN Some(1) ELSE sp1
        ep1 == IF sp0 = None THEN loc.end_page_number ELSE ep0
        ep  == IF ep1 = None THEN sp ELSE ep1
        entity_type == OrStr(OrStr(obj.entity_type, obj.type), obj.category)
        color == OrStr(obj.color, obj.highlight_color)
    IN  <<"ok", [cited_text |-> cited_text[1],
                 start_page_number |-> sp[1],
                 end_page_number |-> Some(ep[1]),
                 entity_type |-> entity_type,
                 color |-> color]>>

\* Mutant of from_generic: page_number is read before start_page_number, and
\* highlight_color before color.
FromGenericSwapped(obj) ==
    LET cited_text == OrText(OrText(obj.cited_text, obj.text), Some(<<>>))
        sp0 == OrInt(OrInt(obj.page_number, obj.start_page_number), obj.page)
        ep0 == obj.end_page_number
        loc == IF obj.page_location = None THEN NoLocation ELSE obj.page_location[1]
        sp  == IF sp0 = None THEN OrInt(loc.start_page_number, loc.page_number) ELSE sp0
        ep1 == IF sp0 = None THEN loc.end_page_number ELSE ep0
        ep  == IF ep1 = None THEN sp ELSE ep1
        entity_type == OrStr(OrStr(obj.entity_type, obj.type), obj.category)
        color == OrStr(obj.highlight_color, obj.color)
    IN  IF sp = None THEN <<"ValueError">>
        ELSE <<"ok", [cited_text |-> cited_text[1],
                      start_page_number |-> sp[1],
                      end_page_number |-> Some(ep[1]),
                      entity_type |-> entity_type,
                      color |-> color]>>

\* <<"ok", citation>> or <<"ValueError">>.
from_generic(obj) ==
    LET cited_text == OrText(OrText(obj.cited_text, obj.text), Some(<<>>))
        sp0 == OrInt(OrInt(obj.start_page_number, obj.page_number), obj.page)
        ep0 == obj.end_page_number
        loc == IF obj.page_location = None THEN NoLocation ELSE obj.page_location[1]
        sp  == IF sp0 = None THEN OrInt(loc.start_page_number, loc.page_number) ELSE sp0
        ep1 == IF sp0 = None THEN loc.end_page_number ELSE ep0
        ep  == IF ep1 = None THEN sp ELSE ep1
        entity_type == OrStr(OrStr(obj.entity_type, obj.type), obj.category)
        color == OrStr(obj.color, obj.highlight_color)
    IN  IF sp = None THEN <<"ValueError">>
        ELSE <<"ok", [cited_text |-> cited_text[1],
                      start_page_number |-> sp[1],
                      end_page_number |-> Some(ep[1]),
                      entity_type |-> entity_type,
                      color |-> color]>>

PageVals == {None} \cup {Some(n) : n \in 0..MaxPageNo}

\* Two texts a record can carry.
TextQ == <<"q">>
TextT == <<"t">>

NoAliases ==
    [cited_text |-> Some(TextQ), text |-> None, entity_type |-> None, type |-> None,
     category |-> None, color |-> None, highlight_color |-> None]

\* Records that vary the page fields.
PageObjs ==
    {[cited_text |-> NoAliases.cited_text, text |-> None, entity_type |-> None,
      type |-> None, category |-> None, color |-> None, highlight_color |-> None,
      start_page_number |-> a, page_number |-> b, page |-> c, end_page_number |-> d,
      page_location |-> l] :
        a \in PageVals, b \in PageVals, c \in PageVals, d \in PageVals,
        l \in {None} \cup {Some(r) : r \in [start_page_number : PageVals,
                                            page_number : PageVals,
                                            end_page_number : PageVals]}}

\* Records that vary the text, entity and color aliases.
AliasObjs ==
    {[cited_text |-> t1, text |-> t2, entity_type |-> e1, type |-> e2, category |-> e3,
      color |-> c1, highlight_color |-> c2,
      start_page_number |-> Some(1), page_number |-> None, page |-> None,
      end_page_number |-> None, page_location |-> None] :
        t1 \in {None, Some(<<>>), Some(TextQ)}, t2 \in {None, Some(<<>>), Some(TextT)},
        e1 \in {None, Some(""), Some("method")}, e2 \in {None, Some("result")},
        e3 \in {None, Some("data")},
        c1 \in {None, Some(""), Some("red")}, c2 \in {None, Some("blue")}}

FromGeneric ==
    /\ fg_pc = "in"
    /\ fg_result' = from_generic(fg_obj)
    /\ fg_pc' = "done"
    /\ UNCHANGED <<fg_obj, ntVars, rqVars, gcVars, hlVars, newVars>>

(***************************************************************************)
(* Offset resolution: _find_offsets and resolve_quote                      *)
(***************************************************************************)

\* Longest linear text.
MaxTextLen == 3
\* Longest page description.
MaxPageLen == 2
\* Longest quote.
MaxQuoteLen == 2
\* Most pages _load_parsed_doc_pages returns.
MaxDescPages == 2

QuoteAlphabet == {"a", "b"}

\* Mutant of StrFind: text.rfind(quote), the last occurrence.
StrFindLast(text, quote) ==
    LET at == {i \in 0..(Len(text) - Len(quote)) :
                  SubSeq(text, i + 1, i + Len(quote)) = quote}
    IN  IF at = {} THEN -1 ELSE CHOOSE i \in at : \A j \in at : j <= i

\* text.find(quote): the 0-based index of the first occurrence, or -1.
StrFind(text, quote) ==
    LET at == {i \in 0..(Len(text) - Len(quote)) :
                  SubSeq(text, i + 1, i + Len(quote)) = quote}
    IN  IF at = {} THEN -1 ELSE CHOOSE i \in at : \A j \in at : i <= j

\* Mutant of _find_offsets: the idx == -1 test is missing.
FindOffsetsNoMiss(text, quote) ==
    IF text = <<>> \/ quote = <<>> THEN None
    ELSE LET idx == StrFind(text, quote)
         IN  Some(<<idx, idx + Len(quote)>>)

\* None, or Some(<<start, end>>).
_find_offsets(text, quote) ==
    IF text = <<>> \/ quote = <<>> THEN None
    ELSE LET idx == StrFind(text, quote)
         IN  IF idx = -1 THEN None ELSE Some(<<idx, idx + Len(quote)>>)

\* res as resolve_quote first builds it.
UnmatchedRes ==
    [offset_status |-> "unmatched", source |-> "text",
     start_offset |-> None, end_offset |-> None, page |-> None]

TextMatch(m) ==
    [offset_status |-> "matched", source |-> "text",
     start_offset |-> Some(m[1][1]), end_offset |-> Some(m[1][2]), page |-> None]

VisionMatch(m, i) ==
    [offset_status |-> "matched", source |-> "vision",
     start_offset |-> Some(m[1][1]), end_offset |-> Some(m[1][2]), page |-> Some(i)]

\* Mutant of SearchPages: the loop does not return at the first matching page.
RECURSIVE SearchPagesLast(_, _, _)
SearchPagesLast(pages, quote, i) ==
    IF i > Len(pages) THEN [res |-> UnmatchedRes, calls |-> <<>>]
    ELSE LET m2 == _find_offsets(pages[i], quote)
             r  == SearchPagesLast(pages, quote, i + 1)
         IN  IF m2 # None /\ r.res.offset_status = "unmatched"
             THEN [res |-> VisionMatch(m2, i), calls |-> <<i>> \o r.calls]
             ELSE [res |-> r.res, calls |-> <<i>> \o r.calls]

\* Pass 2 from page i on: for i, ptxt in enumerate(pages, start=1): ...
\* res is what resolve_quote returns, calls the texts _find_offsets was given.
RECURSIVE SearchPages(_, _, _)
SearchPages(pages, quote, i) ==
    IF i > Len(pages) THEN [res |-> UnmatchedRes, calls |-> <<>>]
    ELSE LET m2 == _find_offsets(pages[i], quote)
         IN  IF m2 # None
             THEN [res |-> VisionMatch(m2, i), calls |-> <<i>>]
             ELSE LET r == SearchPages(pages, quote, i + 1)
                  IN  [res |-> r.res, calls |-> <<i>> \o r.calls]

\* Mutant of resolve_quote: pass 1 calls linear_text.find(quote) without the
\* emptiness tests of _find_offsets.
ResolveQuoteUnguarded(linear_text, pages, quote) ==
    LET idx == StrFind(linear_text, quote)
    IN  IF idx # -1
        THEN [res |-> TextMatch(Some(<<idx, idx + Len(quote)>>)), calls |-> <<0>>]
        ELSE LET r == SearchPages(pages, quote, 1)
             IN  [res |-> r.res, calls |-> <<0>> \o r.calls]

\* def resolve_quote(obj), with quote = obj.get('quote') or ''.
resolve_quote(linear_text, pages, quote) ==
    LET m == _find_offsets(linear_text, quote)
    IN  IF m # None
        THEN [res |-> TextMatch(m), calls |-> <<0>>]
        ELSE LET r == SearchPages(pages, quote, 1)
             IN  [res |-> r.res, calls |-> <<0>> \o r.calls]

\* for c in citations: prov = resolve_quote(c)  -- a missing quote reads as ''.
ResolveCitationQuote ==
    /\ rq_pc = "idle"
    /\ \E q \in SeqsUpTo(QuoteAlphabet, MaxQuoteLen) :
         LET r == resolve_quote(rq_linear, rq_pages, q)
         IN  /\ rq_quote' = q
             /\ rq_res' = r.res
             /\ rq_calls' = r.calls
    /\ rq_pc' = "done"
    /\ UNCHANGED <<rq_linear, rq_pages, ntVars, gcVars, fgVars, hlVars, newVars>>

\* for o in outcomes: if 'quote' in o and o['quote']: prov = resolve_quote(o)
ResolveOutcomeQuote ==
    /\ rq_pc = "idle"
    /\ \E q \in SeqsUpTo(QuoteAlphabet, MaxQuoteLen) :
         LET r == resolve_quote(rq_linear, rq_pages, q)
         IN  /\ q # <<>>
             /\ rq_quote' = q
             /\ rq_res' = r.res
             /\ rq_calls' = r.calls
    /\ rq_pc' = "done"
    /\ UNCHANGED <<rq_linear, rq_pages, ntVars, gcVars, fgVars, hlVars, newVars>>

\* The loop moves on to the next citation or outcome.
NextQuote ==
    /\ rq_pc = "done"
    /\ rq_pc' = "idle"
    /\ rq_quote' = <<>>
    /\ rq_res' = UnmatchedRes
    /\ rq_calls' = <<>>
    /\ UNCHANGED <<rq_linear, rq_pages, ntVars, gcVars, fgVars, hlVars, newVars>>

(***************************************************************************)
(* highlight_pdf, _search_and_highlight, _fuzzy_rectangle_highlight        *)
(***************************************************************************)

\* Most pages of a document.
MaxDocPages == 2
\* Most citations in one call.
MaxCitations == 2

\* c repeated n times.
Rep(c, n) == [i \in 1..n |-> c]

SP == <<" ">>

\* Cited texts: empty; one character; 20 and 21 characters after normalisation
\* (the second is the first followed by one more "d").
TextX == <<"x">>
Text20 == Rep("a", 5) \o SP \o Rep("b", 5) \o SP \o Rep("c", 5) \o SP \o Rep("d", 2)
Text21 == Text20 \o <<"d">>
\* A text of four long words, the second the longest, and the same in
\* parentheses: its candidates are the text, the text without the parentheses,
\* and the phrase of its words by decreasing length.
TextWords == Rep("a", 5) \o SP \o Rep("b", 6) \o SP \o Rep("c", 5) \o SP \o Rep("d", 5)
TextParen == <<"(">> \o TextWords \o <<")">>
\* A text of 101 characters in three words, two of them on every page of
\* PageExact and PageParaphrase, and its first n characters.
Text101 == Rep("a", 5) \o SP \o Rep("b", 5) \o SP \o Rep("c", 89)
TextFirst(n) == SubSeq(Text101, 1, n)
TextSamples == {<<>>, TextX, Text20, Text21}

\* A block of page.get_text("dict")["blocks"]: an image block has no "lines"; a
\* text block has spans, each with its text.
ImageBlock == [lines |-> FALSE, spans |-> <<>>]
TextBlock(spans) == [lines |-> TRUE, spans |-> spans]

\* A page that holds Text21 verbatim, in two blocks.
PageExact ==
    <<TextBlock(<<Text21>>), TextBlock(<<Rep("e", 2), Text21 \o SP \o Rep("e", 2)>>)>>
\* A page that holds two of the words of Text21 and none of the cited texts.
PageParaphrase ==
    <<ImageBlock, TextBlock(<<>>), TextBlock(<<Rep("B", 5), Rep("a", 5) \o SP \o Rep("e", 2)>>)>>

\* A page that holds TextWords without the parentheses, and one that holds
\* TextParen.
PageWords == <<TextBlock(<<TextWords>>)>>
PageParen == <<TextBlock(<<TextParen>>)>>

\* A page that holds Text101, and so each of its prefixes once.
PageLong == <<TextBlock(<<Text101>>)>>

\* Documents of 0..MaxDocPages pages that alternate the two kinds of page,
\* starting with either; the document of PageWords and PageParen; the
\* document of PageLong.
Docs ==
    {[i \in 1..n |-> IF i % 2 = first THEN PageExact ELSE PageParaphrase] :
        n \in 0..MaxDocPages, first \in {0, 1}}
    \cup {<<PageWords, PageParen>>, <<PageLong>>}

\* The PageLocationCitation objects highlight_pdf is given: every page range
\* around the document with one text, and every text, with and without entity
\* type and color, on every single page of the document.
RangeCitations ==
    [cited_text : {Text21},
     start_page_number : -1..(MaxDocPages + 1),
     end_page_number : {None} \cup {Some(n) : n \in -1..(MaxDocPages + 1)},
     entity_type : {None},
     color : {None}]

TextCitations ==
    [cited_text : TextSamples,
     start_page_number : 1..MaxDocPages,
     end_page_number : {None},
     entity_type : {None},
     color : {None}]
    \cup
    [cited_text : {Text21},
     start_page_number : 1..MaxDocPages,
     end_page_number : {None},
     entity_type : {Some("method")},
     color : {Some("RED")}]

\* TextParen over the first two pages.
ParenCitations ==
    {[cited_text |-> TextParen, start_page_number |-> 1, end_page_number |-> Some(2),
      entity_type |-> None, color |-> None]}

\* Texts of 50, 51, 100 and 101 characters on page 1, with and without an
\* entity type.
NoteCitations ==
    [cited_text : {TextFirst(50), TextFirst(51), TextFirst(100), Text101},
     start_page_number : {1},
     end_page_number : {None},
     entity_type : {None, Some("result")},
     color : {None}]

ObjectCitations ==
    RangeCitations \cup TextCitations \cup ParenCitations \cup NoteCitations

\* The dicts highlight_pdf is given: one text, under start_page_number nothing or
\* a page from 0 to one past the document, under end_page_number nothing or 0.
DictCitations ==
    {[cited_text |-> Some(Text21), text |-> None, entity_type |-> None, type |-> None,
      category |-> None, color |-> None, highlight_color |-> None,
      start_page_number |-> a, page_number |-> None, page |-> None,
      end_page_number |-> d, page_location |-> None] :
        a \in {None} \cup {Some(n) : n \in 0..(MaxDocPages + 1)},
        d \in {None, Some(0)}}

\* norm_citations holds the objects as given and what from_generic made of the
\* dicts.  The loop reads it front to back and nothing else depends on its
\* elements, so each element is drawn when the loop reaches it.
Citations ==
    ObjectCitations \cup
        {from_generic(d)[2] : d \in {x \in DictCitations : from_generic(x)[1] = "ok"}}

NoCitation ==
    [cited_text |-> <<>>, start_page_number |-> 1, end_page_number |-> None,
     entity_type |-> None, color |-> None]

\* str.lower() on a text.
LowerChar(c) == CASE c = "A" -> "a" [] c = "B" -> "b" [] OTHER -> c
LowerText(t) == [i \in 1..Len(t) |-> LowerChar(t[i])]

\* The text of a block as the page shows it: its spans, a space between them.
BlockText(block) == JoinSpace(block.spans)

\* The 0-based indices at which snippet occurs in text, ascending.
RECURSIVE OccurrencesFrom(_, _, _)
OccurrencesFrom(text, snippet, i) ==
    IF i + Len(snippet) > Len(text) THEN <<>>
    ELSE (IF SubSeq(text, i + 1, i + Len(snippet)) = snippet THEN <<i>> ELSE <<>>)
            \o OccurrencesFrom(text, snippet, i + 1)

\* page.search_for(text): one rectangle <<block, index>> for each verbatim
\* occurrence of the snippet in a text block of the page.
RECURSIVE SearchBlocks(_, _, _)
SearchBlocks(page, snippet, b) ==
    IF b > Len(page) THEN <<>>
    ELSE LET at == IF page[b].lines
                   THEN OccurrencesFrom(BlockText(page[b]), snippet, 0)
                   ELSE <<>>
         IN  [k \in 1..Len(at) |-> <<b, at[k]>>] \o SearchBlocks(page, snippet, b + 1)

search_for(page, snippet) ==
    IF snippet = <<>> THEN <<>> ELSE SearchBlocks(page, snippet, 1)

\* Mutant of ExactNote: a text of 50 characters has a note too.
ExactNoteFrom50(citation) ==
    IF TruthyStr(citation.entity_type) \/ Len(citation.cited_text) >= 50
    THEN Some([fuzzy |-> FALSE,
               entity |-> IF TruthyStr(citation.entity_type)
                          THEN Some(Upper(citation.entity_type[1])) ELSE None,
               preview |-> SubSeq(citation.cited_text, 1, Min(100, Len(citation.cited_text))),
               ellipsis |-> Len(citation.cited_text) > 100])
    ELSE None

\* The note of an exact-match annotation: None, or the entity tag in upper case
\* (if any), the first 100 characters of the cited text, and whether "..." follows.
ExactNote(citation) ==
    IF TruthyStr(citation.entity_type) \/ Len(citation.cited_text) > 50
    THEN Some([fuzzy |-> FALSE,
               entity |-> IF TruthyStr(citation.entity_type)
                          THEN Some(Upper(citation.entity_type[1])) ELSE None,
               preview |-> SubSeq(citation.cited_text, 1, Min(100, Len(citation.cited_text))),
               ellipsis |-> Len(citation.cited_text) > 100])
    ELSE None

\* Mutant of FuzzyNote: the ellipsis follows a text of 100 characters or more.
FuzzyNoteEllipsisFrom100(citation) ==
    Some([fuzzy |-> TRUE,
          entity |-> IF TruthyStr(citation.entity_type)
                     THEN Some(Upper(citation.entity_type[1])) ELSE None,
          preview |-> SubSeq(citation.cited_text, 1, Min(100, Len(citation.cited_text))),
          ellipsis |-> Len(citation.cited_text) >= 100])

\* The note of a fuzzy annotation: "[FUZZY MATCH]", the entity tag, the preview.
FuzzyNote(citation) ==
    Some([fuzzy |-> TRUE,
          entity |-> IF TruthyStr(citation.entity_type)
                     THEN Some(Upper(citation.entity_type[1])) ELSE None,
          preview |-> SubSeq(citation.cited_text, 1, Min(100, Len(citation.cited_text))),
          ellipsis |-> Len(citation.cited_text) > 100])

\* Mutant of Annotate: the first failure ends the loop over the rectangles.
RECURSIVE AnnotateUntilFailure(_, _, _, _, _, _)
AnnotateUntilFailure(rects, ok, kind, color, note, k) ==
    IF k > Len(rects) \/ ~ok[k] THEN <<>>
    ELSE <<[kind |-> kind, rect |-> rects[k], color |-> color, note |-> note]>>
            \o AnnotateUntilFailure(rects, ok, kind, color, note, k + 1)

\* The annotations added for the rectangles whose annotation succeeded
\* (ok[k] says whether rectangle k could be annotated), in rectangle order.
RECURSIVE Annotate(_, _, _, _, _, _)
Annotate(rects, ok, kind, color, note, k) ==
    IF k > Len(rects) THEN <<>>
    ELSE (IF ok[k]
          THEN <<[kind |-> kind, rect |-> rects[k], color |-> color, note |-> note]>>
          ELSE <<>>) \o Annotate(rects, ok, kind, color, note, k + 1)

\* sum(1 for word in target_words if word in block_norm)
RECURSIVE CountWordsIn(_, _)
CountWordsIn(words, text) ==
    IF words = <<>> THEN 0
    ELSE (IF StrFind(text, Head(words)) # -1 THEN 1 ELSE 0) + CountWordsIn(Tail(words), text)

\* block_text: every span's text followed by a space.
RECURSIVE SpansText(_)
SpansText(spans) ==
    IF spans = <<>> THEN <<>> ELSE Head(spans) \o SP \o SpansText(Tail(spans))

\* matches >= min(3, len(target_words) * 0.6), in integers.
EnoughWords(matches, n) == matches >= 3 \/ 5 * matches >= 3 * n

\* The blocks _fuzzy_rectangle_highlight tries to annotate, as rectangles <<block>>.
RECURSIVE FuzzyBlocks(_, _, _)
FuzzyBlocks(page, target_words, b) ==
    IF b > Len(page) THEN <<>>
    ELSE LET block == page[b]
             block_norm == LowerText(_normalize_text(SpansText(block.spans)))
             matches == CountWordsIn(target_words, block_norm)
         IN  (IF block.lines /\ block.spans # <<>> /\ EnoughWords(matches, Len(target_words))
              THEN <<<<b>>>> ELSE <<>>) \o FuzzyBlocks(page, target_words, b + 1)

\* The rectangles _fuzzy_rectangle_highlight finds for the text on the page.
FuzzyRects(page, text) ==
    LET norm_target == LowerText(_normalize_text(text))
        target_words == LongerThan(FindTokens(norm_target, {}), 3)
    IN  IF Len(norm_target) < 10 \/ Len(target_words) < 2 THEN <<>>
        ELSE FuzzyBlocks(page, target_words, 1)

\* start_idx = max(0, cit.start_page_number - 1)
StartIdx(cit) == Max(0, cit.start_page_number - 1)

\* end_idx = min(len(doc) - 1, (cit.end_page_number or cit.start_page_number) - 1)
EndIdx(doc, cit) ==
    Min(Len(doc) - 1,
        (IF TruthyInt(cit.end_page_number) THEN cit.end_page_number[1]
         ELSE cit.start_page_number) - 1)

\* Mutant of GetOr0: the earlier count of the page is not read.
GetAlways0(dict, key) == 0

\* dict.get(key, 0)
GetOr0(dict, key) == IF key \in DOMAIN dict THEN dict[key] ELSE 0

\* dict[key] = value
SetItem(dict, key, value) ==
    [k \in DOMAIN dict \cup {key} |-> IF k = key THEN value ELSE dict[k]]

\* sum(dict.values())
RECURSIVE SumValues(_)
SumValues(dict) ==
    IF DOMAIN dict = {} THEN 0
    ELSE LET k == CHOOSE x \in DOMAIN dict : TRUE
         IN  dict[k] + SumValues([x \in DOMAIN dict \ {k} |-> dict[x]])

CountTrue(ok) == Cardinality({k \in DOMAIN ok : ok[k]})

\* Mutant of StopTrying: any hit ends the loop over the candidates.
StopOnAnyHit(hits, snippet, cited_text) == hits > 0

\* if hits: ... if len(snippet) >= min(200, len(_normalize_text(cit.cited_text))): break
StopTrying(hits, snippet, cited_text) ==
    hits > 0 /\ Len(snippet) >= Min(200, Len(_normalize_text(cited_text)))

\* for c in citations, isinstance(c, PageLocationCitation): appended as it is.
NormalizeObject ==
    /\ hl_pc = "parse"
    /\ hl_unparsed > 0
    /\ hl_unparsed' = hl_unparsed - 1
    /\ hl_remaining' = hl_remaining + 1
    /\ hl_item' = None
    /\ UNCHANGED <<hl_pc, hl_opened, hl_doc, hl_cit, hl_page_num, hl_end_idx, hl_cands,
                   hl_hit_this_page, hl_found_exact_match, hl_per_page_hits, hl_annots,
                   hl_added, hl_saved, hl_summary, hl_searched, hl_rects_found,
                   hl_fuzzy_called, hl_fuzzy_hits>>
    /\ UNCHANGED <<ntVars, rqVars, gcVars, fgVars, newVars>>

\* for c in citations, otherwise: from_generic(c) is appended, or its ValueError
\* ends the call.
NormalizeDict ==
    /\ hl_pc = "parse"
    /\ hl_unparsed > 0
    /\ \E c \in DictCitations :
         /\ hl_item' = Some(c)
         /\ IF from_generic(c)[1] = "ok"
            THEN /\ hl_unparsed' = hl_unparsed - 1
                 /\ hl_remaining' = hl_remaining + 1
                 /\ hl_pc' = "parse"
            ELSE /\ hl_pc' = "ValueError"
                 /\ UNCHANGED <<hl_unparsed, hl_remaining>>
    /\ UNCHANGED <<hl_opened, hl_doc, hl_cit, hl_page_num, hl_end_idx, hl_cands,
                   hl_hit_this_page, hl_found_exact_match, hl_per_page_hits, hl_annots,
                   hl_added, hl_saved, hl_summary, hl_searched, hl_rects_found,
                   hl_fuzzy_called, hl_fuzzy_hits>>
    /\ UNCHANGED <<ntVars, rqVars, gcVars, fgVars, newVars>>

\* Mutant of OpenDocument: the document is opened before the list is parsed
\* to its end.
OpenDocumentEarly ==
    /\ hl_pc = "parse"
    /\ hl_opened' = TRUE
    /\ hl_item' = None
    /\ hl_per_page_hits' = <<>>
    /\ hl_pc' = "loop"
    /\ UNCHANGED <<hl_unparsed, hl_remaining, hl_doc, hl_cit, hl_page_num, hl_end_idx,
                   hl_cands, hl_hit_this_page, hl_found_exact_match, hl_annots,
                   hl_added, hl_saved, hl_summary, hl_searched, hl_rects_found,
                   hl_fuzzy_called, hl_fuzzy_hits>>
    /\ UNCHANGED <<ntVars, rqVars, gcVars, fgVars, newVars>>

\* doc = fitz.open(pdf_path); per_page_hits = {}
OpenDocument ==
    /\ hl_pc = "parse"
    /\ hl_unparsed = 0
    /\ hl_opened' = TRUE
    /\ hl_item' = None
    /\ hl_per_page_hits' = <<>>
    /\ hl_pc' = "loop"
    /\ UNCHANGED <<hl_unparsed, hl_remaining, hl_doc, hl_cit, hl_page_num, hl_end_idx,
                   hl_cands, hl_hit_this_page, hl_found_exact_match, hl_annots,
                   hl_added, hl_saved, hl_summary, hl_searched, hl_rects_found,
                   hl_fuzzy_called, hl_fuzzy_hits>>
    /\ UNCHANGED <<ntVars, rqVars, gcVars, fgVars, newVars>>

\* for cit in norm_citations: the next citation, and its page range.
NextCitation ==
    /\ hl_pc = "loop"
    /\ hl_remaining > 0
    /\ \E cit \in Citations :
         /\ hl_cit' = cit
         /\ hl_page_num' = StartIdx(cit)
         /\ hl_end_idx' = EndIdx(hl_doc, cit)
    /\ hl_remaining' = hl_remaining - 1
    /\ hl_searched' = {}
    /\ hl_added' = <<>>
    /\ hl_pc' = "pages"
    /\ UNCHANGED <<hl_doc, hl_cands, hl_hit_this_page, hl_found_exact_match,
                   hl_per_page_hits, hl_annots, hl_saved, hl_summary, hl_rects_found,
                   hl_fuzzy_called, hl_fuzzy_hits>>
    /\ UNCHANGED <<hlInput, ntVars, rqVars, gcVars, fgVars, newVars>>

\* for page_num in range(start_idx, end_idx + 1): page = doc[page_num]; the
\* counters of the page are reset and its candidates generated.
BeginPage ==
    /\ hl_pc = "pages"
    /\ hl_page_num <= hl_end_idx
    /\ hl_searched' = hl_searched \cup {hl_page_num + 1}
    /\ hl_hit_this_page' = 0
    /\ hl_found_exact_match' = FALSE
    /\ hl_rects_found' = 0
    /\ hl_fuzzy_called' = FALSE
    /\ hl_fuzzy_hits' = 0
    /\ hl_added' = <<>>
    /\ IF hl_page_num \in 0..(Len(hl_doc) - 1)
       THEN LET cands == _candidate_snippets(hl_cit.cited_text)
            IN  /\ hl_cands' = cands
                /\ hl_pc' = IF cands = <<>> THEN "finish" ELSE "search"
       ELSE \* page_num is not the index of a page: doc[page_num] raises IndexError
            /\ hl_cands' = <<>>
            /\ hl_pc' = "error"
    /\ UNCHANGED <<hl_doc, hl_remaining, hl_cit, hl_page_num, hl_end_idx,
                   hl_per_page_hits, hl_annots, hl_saved, hl_summary>>
    /\ UNCHANGED <<hlInput, ntVars, rqVars, gcVars, fgVars, newVars>>

\* The range is exhausted: back to the loop over the citations.
EndCitation ==
    /\ hl_pc = "pages"
    /\ hl_page_num > hl_end_idx
    /\ hl_pc' = "loop"
    /\ hl_cit' = NoCitation
    /\ hl_page_num' = 0
    /\ hl_end_idx' = 0
    /\ hl_searched' = {}
    /\ hl_hit_this_page' = 0
    /\ hl_found_exact_match' = FALSE
    /\ hl_rects_found' = 0
    /\ hl_fuzzy_called' = FALSE
    /\ hl_fuzzy_hits' = 0
    /\ hl_added' = <<>>
    /\ UNCHANGED <<hl_doc, hl_remaining, hl_cands, hl_per_page_hits, hl_annots,
                   hl_saved, hl_summary>>
    /\ UNCHANGED <<hlInput, ntVars, rqVars, gcVars, fgVars, newVars>>

\* One turn of "for snippet in _candidate_snippets(...)": _search_and_highlight
\* on the page (search_for may raise, each annotation may fail), then the
\* accumulation and the test that ends the loop.
SearchCandidate ==
    /\ hl_pc = "search"
    /\ hl_cands # <<>>
    /\ \E raised \in BOOLEAN,
          color \in {_get_color_for_citation(hl_cit, ENTITY_COLORS, COLOR_NAMES)} :
         \E rects \in {IF raised THEN <<>>
                       ELSE search_for(hl_doc[hl_page_num + 1], Head(hl_cands))} :
           \E ok \in [1..Len(rects) -> BOOLEAN] :
             LET hits == CountTrue(ok)
                 stop == StopTrying(hits, Head(hl_cands), hl_cit.cited_text)
             IN  IF color[1] # "ok"
                 THEN /\ hl_pc' = "error"
                      /\ UNCHANGED <<hl_cands, hl_hit_this_page, hl_found_exact_match,
                                     hl_annots, hl_added, hl_rects_found>>
                 ELSE /\ hl_added' = Annotate(rects, ok, "highlight", color[2],
                                              ExactNote(hl_cit), 1)
                      /\ hl_annots' = [hl_annots EXCEPT ![hl_page_num + 1] = @ + hits]
                      /\ hl_hit_this_page' = hl_hit_this_page + hits
                      /\ hl_found_exact_match' = (hl_found_exact_match \/ hits > 0)
                      /\ hl_rects_found' = hl_rects_found + Len(rects)
                      /\ hl_cands' = Tail(hl_cands)
                      /\ hl_pc' = IF stop \/ Tail(hl_cands) = <<>>
                                  THEN "finish" ELSE "search"
    /\ UNCHANGED <<hl_doc, hl_remaining, hl_cit, hl_page_num, hl_end_idx,
                   hl_per_page_hits, hl_saved, hl_summary, hl_searched,
                   hl_fuzzy_called, hl_fuzzy_hits>>
    /\ UNCHANGED <<hlInput, ntVars, rqVars, gcVars, fgVars, newVars>>

\* Mutant of FuzzyWanted: the guard reads >= 20.
FuzzyWantedFrom20(found_exact_match, cited_text) ==
    ~found_exact_match /\ Len(_normalize_text(cited_text)) >= 20

\* if not found_exact_match and len(_normalize_text(cit.cited_text)) > 20
FuzzyWanted(found_exact_match, cited_text) ==
    ~found_exact_match /\ Len(_normalize_text(cited_text)) > 20

\* After the candidates: the fuzzy fallback when wanted (get_text may raise, each
\* annotation may fail), then per_page_hits[page_num + 1] += hit_this_page.
FinishPage ==
    /\ hl_pc = "finish"
    /\ \E raised \in BOOLEAN,
          color \in {_get_color_for_citation(hl_cit, ENTITY_COLORS, COLOR_NAMES)},
          wanted \in {FuzzyWanted(hl_found_exact_match, hl_cit.cited_text)} :
         \E rects \in {IF wanted /\ ~raised
                       THEN FuzzyRects(hl_doc[hl_page_num + 1], hl_cit.cited_text)
                       ELSE <<>>} :
           \E ok \in [1..Len(rects) -> BOOLEAN] :
             LET fuzzy_hits == CountTrue(ok)
                 total == hl_hit_this_page + fuzzy_hits
             IN  /\ wanted \/ ~raised
                 /\ hl_fuzzy_called' = wanted
                 /\ IF wanted /\ ~raised /\ color[1] # "ok"
                    THEN /\ hl_pc' = "error"
                         /\ UNCHANGED <<hl_annots, hl_added, hl_hit_this_page,
                                        hl_per_page_hits, hl_fuzzy_hits, hl_page_num>>
                    ELSE /\ hl_added' = Annotate(rects, ok, "rect", color[2],
                                                 FuzzyNote(hl_cit), 1)
                         /\ hl_annots' = [hl_annots EXCEPT ![hl_page_num + 1] =
                                             @ + fuzzy_hits]
                         /\ hl_fuzzy_hits' = fuzzy_hits
                         /\ hl_hit_this_page' = total
                         /\ hl_per_page_hits' =
                              SetItem(hl_per_page_hits, hl_page_num + 1,
                                      GetOr0(hl_per_page_hits, hl_page_num + 1) + total)
                         /\ hl_page_num' = hl_page_num + 1
                         /\ hl_pc' = "pages"
    /\ UNCHANGED <<hl_doc, hl_remaining, hl_cit, hl_end_idx, hl_cands,
                   hl_found_exact_match, hl_saved, hl_summary, hl_searched,
                   hl_rects_found>>
    /\ UNCHANGED <<hlInput, ntVars, rqVars, gcVars, fgVars, newVars>>

\* Mutant of SaveAndReturn: the document is saved while citations remain.
SaveAndReturnEarly ==
    /\ hl_pc = "loop"
    /\ hl_saved' = hl_saved + 1
    /\ hl_summary' = Some([total_highlights |-> SumValues(hl_per_page_hits),
                           per_page |-> hl_per_page_hits])
    /\ hl_pc' = "done"
    /\ UNCHANGED <<hl_doc, hl_remaining, hl_cit, hl_page_num, hl_end_idx, hl_cands,
                   hl_hit_this_page, hl_found_exact_match, hl_per_page_hits, hl_annots,
                   hl_added, hl_searched, hl_rects_found, hl_fuzzy_called, hl_fuzzy_hits>>
    /\ UNCHANGED <<hlInput, ntVars, rqVars, gcVars, fgVars, newVars>>

\* doc.save(output_pdf_path); doc.close(); return the summary.
SaveAndReturn ==
    /\ hl_pc = "loop"
    /\ hl_remaining = 0
    /\ hl_saved' = hl_saved + 1
    /\ hl_summary' = Some([total_highlights |-> SumValues(hl_per_page_hits),
                           per_page |-> hl_per_page_hits])
    /\ hl_pc' = "done"
    /\ UNCHANGED <<hl_doc, hl_remaining, hl_cit, hl_page_num, hl_end_idx, hl_cands,
                   hl_hit_this_page, hl_found_exact_match, hl_per_page_hits, hl_annots,
                   hl_added, hl_searched, hl_rects_found, hl_fuzzy_called, hl_fuzzy_hits>>
    /\ UNCHANGED <<hlInput, ntVars, rqVars, gcVars, fgVars, newVars>>

(***************************************************************************)
(* highlight_pdf as one function of the document, the citations and the    *)
(* environment, for comparing two calls.  The environment says on which    *)
(* pages search_for and get_text raise and which blocks of which pages     *)
(* cannot be annotated: env.fail holds <<page, kind, block>>.              *)
(***************************************************************************)

\* The loop over the candidates on one page: hits, found_exact_match and the
\* annotations added.
\* The one element of a singleton set.  The operators below bind each value
\* they use more than once as the element of a singleton, so that it is
\* computed once.
TheOne(S) == CHOOSE x \in S : TRUE

RECURSIVE TryCandidates(_, _, _, _, _)
TryCandidates(page, p, cit, env, cands) ==
    IF cands = <<>> THEN [hits |-> 0, found |-> FALSE, added |-> <<>>]
    ELSE TheOne({
           LET ok == [k \in 1..Len(rects) |-> <<p, "highlight", rects[k][1]>> \notin env.fail]
               color == _get_color_for_citation(cit, EntityColorsTable, ColorNamesTable)
           IN  TheOne({
                 LET stop == StopTrying(hits, Head(cands), cit.cited_text)
                     added == Annotate(rects, ok, "highlight", color[2], ExactNote(cit), 1)
                 IN  IF stop \/ Tail(cands) = <<>>
                     THEN [hits |-> hits, found |-> hits > 0, added |-> added]
                     ELSE TheOne({[hits |-> hits + r.hits, found |-> hits > 0 \/ r.found,
                                   added |-> added \o r.added] :
                                  r \in {TryCandidates(page, p, cit, env, Tail(cands))}})
                 : hits \in {CountTrue(ok)}})
           : rects \in {IF p \in env.search_raises THEN <<>>
                        ELSE search_for(page, Head(cands))}})

\* The body of the loop over the pages: hit_this_page and the annotations added.
HighlightPage(page, p, cit, env) ==
    TheOne({
      LET wanted == FuzzyWanted(e.found, cit.cited_text)
          color == _get_color_for_citation(cit, EntityColorsTable, ColorNamesTable)
      IN  TheOne({
            LET ok == [k \in 1..Len(rects) |-> <<p, "rect", rects[k][1]>> \notin env.fail]
            IN  [hits |-> e.hits + CountTrue(ok),
                 added |-> e.added \o Annotate(rects, ok, "rect", color[2], FuzzyNote(cit), 1)]
            : rects \in {IF wanted /\ p \notin env.blocks_raise
                         THEN FuzzyRects(page, cit.cited_text) ELSE <<>>}})
      : e \in {TryCandidates(page, p, cit, env, _candidate_snippets(cit.cited_text))}})

\* Mutant of HighlightPages: a page that already carries annotations is skipped.
RECURSIVE HighlightPagesSkipAnnotated(_, _, _, _, _, _)
HighlightPagesSkipAnnotated(doc, cit, env, acc, page_num, end_idx) ==
    IF page_num > end_idx THEN acc
    ELSE LET p == page_num + 1
         IN  TheOne({HighlightPagesSkipAnnotated(doc, cit, env, next, page_num + 1, end_idx) :
                next \in {[per_page |-> SetItem(a.per_page, p, GetOr0(a.per_page, p) + r.hits),
                           annots |-> [a.annots EXCEPT ![p] = @ \o r.added]] :
                          a \in {acc},
                          r \in {IF acc.annots[p] # <<>> THEN [hits |-> 0, added |-> <<>>]
                                 ELSE HighlightPage(doc[p], p, cit, env)}}})

\* for page_num in range(start_idx, end_idx + 1), from page_num on.
RECURSIVE HighlightPages(_, _, _, _, _, _)
HighlightPages(doc, cit, env, acc, page_num, end_idx) ==
    IF page_num > end_idx THEN acc
    ELSE LET p == page_num + 1
         IN  TheOne({HighlightPages(doc, cit, env, next, page_num + 1, end_idx) :
                next \in {[per_page |-> SetItem(a.per_page, p, GetOr0(a.per_page, p) + r.hits),
                           annots |-> [a.annots EXCEPT ![p] = @ \o r.added]] :
                          a \in {acc}, r \in {HighlightPage(doc[p], p, cit, env)}}})

\* for cit in norm_citations
RECURSIVE HighlightAll(_, _, _, _)
HighlightAll(doc, cits, env, acc) ==
    IF cits = <<>> THEN acc
    ELSE TheOne({HighlightAll(doc, Tail(cits), env, next) :
            next \in {HighlightPages(doc, Head(cits), env, acc,
                                     StartIdx(Head(cits)), EndIdx(doc, Head(cits)))}})

\* The summary returned and the annotations each page has got, in order.
highlight_pdf(doc, citations, env) ==
    TheOne({[summary |-> [total_highlights |-> SumValues(acc.per_page),
                          per_page |-> acc.per_page],
             annots |-> acc.annots] :
            acc \in {HighlightAll(doc, citations, env,
                        [per_page |-> <<>>, annots |-> [p \in 1..Len(doc) |-> <<>>]])}})

\* The citations of the two calls: one text on every page, with and without an
\* entity type, the same text over the whole document, and a shorter text.
OrderCitations ==
    [cited_text : {Text21}, start_page_number : 1..MaxDocPages, end_page_number : {None},
     entity_type : {None, Some("method")}, color : {None}]
    \cup
    {[cited_text |-> Text21, start_page_number |-> 1,
      end_page_number |-> Some(MaxDocPages), entity_type |-> Some("result"),
      color |-> None],
     [cited_text |-> Text20, start_page_number |-> 1, end_page_number |-> None,
      entity_type |-> None, color |-> None]}

\* Environments: nothing fails; block 1 of page 1 takes no highlight; no block
\* of page 1 takes a highlight; search_for raises on page 1 and block 2 of
\* page 1 takes no rectangle.
Environments ==
    {[search_raises |-> {}, blocks_raise |-> {}, fail |-> {}],
     [search_raises |-> {}, blocks_raise |-> {}, fail |-> {<<1, "highlight", 1>>}],
     [search_raises |-> {}, blocks_raise |-> {},
      fail |-> {<<1, "highlight", 1>>, <<1, "highlight", 2>>}],
     [search_raises |-> {1}, blocks_raise |-> {}, fail |-> {<<1, "rect", 2>>}]}

\* xs in the order perm gives.
Permuted(xs, perm) == [i \in 1..Len(xs) |-> xs[perm[i]]]

\* The first call.
RunGiven ==
    /\ od_pc = "in"
    /\ od_first' = highlight_pdf(od_doc, od_cits, od_env)
    /\ od_pc' = "first"
    /\ UNCHANGED <<od_doc, od_cits, od_env, od_perm, od_second, oldVars, lcVars, mcVars, lastVars>>

\* The second call, on a fresh copy of the document, with the citations in
\* another order.
RunPermuted ==
    /\ od_pc = "first"
    /\ \E perm \in Permutations(1..Len(od_cits)) :
         /\ od_perm' = perm
         /\ od_second' = highlight_pdf(od_doc, Permuted(od_cits, perm), od_env)
    /\ od_pc' = "done"
    /\ UNCHANGED <<od_doc, od_cits, od_env, od_first, oldVars, lcVars, mcVars, lastVars>>

(***************************************************************************)
(* load_citations_from_json                                                *)
(* A JSON text is held as its tokens; an object key and its colon are one  *)
(* token.  A decoded value is <<"null">>, <<"int", n>>, <<"list", items>>  *)
(* or <<"dict", keys, values>>.                                            *)
(***************************************************************************)

\* Longest argument, in tokens.
MaxJsonLen == 4

JsonAlphabet == {"[", "]", "{", "}", "null", "1", "citations:", "k:"}

ParseFail == [ok |-> FALSE, v |-> <<"null">>, rest |-> <<>>]

\* The JSON value at the front of the tokens, and the tokens after it.
RECURSIVE ParseValue(_)
ParseValue(t) ==
    IF t = <<>> THEN ParseFail
    ELSE CASE Head(t) = "null" -> [ok |-> TRUE, v |-> <<"null">>, rest |-> Tail(t)]
           [] Head(t) = "1" -> [ok |-> TRUE, v |-> <<"int", 1>>, rest |-> Tail(t)]
           [] Head(t) = "[" ->
                IF Len(t) >= 2 /\ t[2] = "]"
                THEN [ok |-> TRUE, v |-> <<"list", <<>>>>, rest |-> SubSeq(t, 3, Len(t))]
                ELSE LET e == ParseValue(Tail(t))
                     IN  IF e.ok /\ e.rest # <<>> /\ Head(e.rest) = "]"
                         THEN [ok |-> TRUE, v |-> <<"list", <<e.v>>>>, rest |-> Tail(e.rest)]
                         ELSE ParseFail
           [] Head(t) = "{" ->
                IF Len(t) >= 2 /\ t[2] = "}"
                THEN [ok |-> TRUE, v |-> <<"dict", <<>>, <<>>>>,
                      rest |-> SubSeq(t, 3, Len(t))]
                ELSE IF Len(t) >= 2 /\ t[2] \in {"citations:", "k:"}
                     THEN LET e == ParseValue(SubSeq(t, 3, Len(t)))
                              key == IF t[2] = "k:" THEN "k" ELSE "citations"
                          IN  IF e.ok /\ e.rest # <<>> /\ Head(e.rest) = "}"
                              THEN [ok |-> TRUE, v |-> <<"dict", <<key>>, <<e.v>>>>,
                                    rest |-> Tail(e.rest)]
                              ELSE ParseFail
                     ELSE ParseFail
           [] OTHER -> ParseFail

\* json.loads(text), json.load(f): the value, or JSONDecodeError.
json_loads(t) ==
    LET r == ParseValue(t)
    IN  IF r.ok /\ r.rest = <<>> THEN <<"ok", r.v>> ELSE <<"JSONDecodeError">>

\* What open(path_or_json, "r") can give: no such file, another failure to open
\* (a directory, no permission, a name too long), or a file with a content.
FileTexts == {<<"[", "1", "]">>, <<"{", "citations:", "[", "]", "}">>,
              <<"{", "k:", "1", "}">>, <<"[">>}
OpenOutcomes ==
    {<<"FileNotFoundError">>, <<"OSError">>} \cup {<<"ok", c>> : c \in FileTexts}

\* The two checks on the decoded data, the dict first.
ShapeOf(data) ==
    IF data[1] = "dict" /\ InSeq("citations", data[2])
    THEN <<"ok", data[3][CHOOSE i \in 1..Len(data[2]) : data[2][i] = "citations"]>>
    ELSE IF data[1] = "list" THEN <<"ok", data>>
         ELSE <<"ValueError", "Unsupported citations json format">>

\* Mutant of load_citations_from_json: the argument is read as inline JSON
\* first and as a path only when it is not JSON.
LoadInlineFirst(path_or_json, file) ==
    LET inline == json_loads(path_or_json)
    IN  IF inline[1] = "ok"
        THEN [res |-> ShapeOf(inline[2]), tried |-> <<"inline">>]
        ELSE IF file[1] = "ok"
             THEN LET data == json_loads(file[2])
                  IN  [res |-> IF data[1] = "ok" THEN ShapeOf(data[2]) ELSE data,
                       tried |-> <<"inline", "file">>]
             ELSE [res |-> <<"ValueError", "neither a valid file path nor a valid JSON string">>,
                   tried |-> <<"inline", "file">>]

\* The value returned or the exception raised, and the sources read.
load_citations_from_json(path_or_json, file) ==
    IF file[1] = "ok"
    THEN LET data == json_loads(file[2])
         IN  [res |-> IF data[1] = "ok" THEN ShapeOf(data[2]) ELSE data,
              tried |-> <<"file">>]
    ELSE IF file[1] = "FileNotFoundError"
         THEN LET data == json_loads(path_or_json)
              IN  [res |-> IF data[1] = "ok" THEN ShapeOf(data[2])
                           ELSE <<"ValueError",
                                  "neither a valid file path nor a valid JSON string">>,
                   tried |-> <<"file", "inline">>]
         ELSE [res |-> file, tried |-> <<"file">>]

LoadCitations ==
    /\ lc_pc = "in"
    /\ \E r \in {load_citations_from_json(lc_arg, lc_file)} :
         /\ lc_result' = r.res
         /\ lc_tried' = r.tried
    /\ lc_pc' = "done"
    /\ UNCHANGED <<lc_arg, lc_file, oldVars, odVars, mcVars, lastVars>>

(***************************************************************************)
(* chunking.merge_and_chunk                                                *)
(* The form feed is written "\f".  A doc holds, under filename, text and   *)
(* pages_description, None (the key is missing) or a value.                *)
(***************************************************************************)

\* Most pages in the text of a doc, most descriptions of a doc, most docs.
MaxTextPages == 2
MaxDescs == 2
MaxChunkDocs == 2

\* Length of the longest prefix of t without sep.
RECURSIVE UntilSep(_, _)
UntilSep(t, sep) ==
    IF t = <<>> \/ Head(t) = sep THEN 0 ELSE 1 + UntilSep(Tail(t), sep)

\* t.split(sep) for a one-character sep: never an empty list.
RECURSIVE SplitOn(_, _)
SplitOn(t, sep) ==
    LET n == UntilSep(t, sep)
    IN  IF n = Len(t) THEN <<t>>
        ELSE <<SubSeq(t, 1, n)>> \o SplitOn(SubSeq(t, n + 2, Len(t)), sep)

\* sep.join(parts)
RECURSIVE JoinWith(_, _)
JoinWith(parts, sep) ==
    IF parts = <<>> THEN <<>>
    ELSE IF Len(parts) = 1 THEN parts[1]
         ELSE parts[1] \o <<sep>> \o JoinWith(Tail(parts), sep)

\* t.lstrip("\n")
RECURSIVE LStripNewlines(_)
LStripNewlines(t) ==
    IF t # <<>> /\ Head(t) = "\n" THEN LStripNewlines(Tail(t)) ELSE t

\* (x.split('\n')[0] or "").strip()
TitleOf(x) == Strip(SplitOn(x, "\n")[1])

\* desc[len(desc_title):].lstrip("\n") if desc_title else desc
CleanedDesc(desc) ==
    LET desc_title == TitleOf(desc)
    IN  IF desc_title # <<>>
        THEN LStripNewlines(SubSeq(desc, Len(desc_title) + 1, Len(desc)))
        ELSE desc

\* slide_title and slide_title.lower() == desc_title.lower()
TitlesMatch(page, desc) ==
    TitleOf(page) # <<>> /\ LowerText(TitleOf(page)) = LowerText(TitleOf(desc))

\* The cleaned descriptions matching the page, from description j on, concatenated.
RECURSIVE MatchedText(_, _, _)
MatchedText(page, descriptions, j) ==
    IF j > Len(descriptions) THEN <<>>
    ELSE (IF TitlesMatch(page, descriptions[j]) THEN CleanedDesc(descriptions[j])
          ELSE <<>>) \o MatchedText(page, descriptions, j + 1)

\* The chunks of the loop over text_pages, from page i on.
RECURSIVE PageChunks(_, _, _, _)
PageChunks(text_pages, descriptions, filename, i) ==
    IF i > Len(text_pages) THEN <<>>
    ELSE <<[content |-> text_pages[i] \o <<"\n">> \o
                            MatchedText(text_pages[i], descriptions, 1),
            filename |-> filename]>>
         \o PageChunks(text_pages, descriptions, filename, i + 1)

\* used_desc_idx after the loop over text_pages (1-based).
UsedDescIdx(text_pages, descriptions) ==
    {j \in 1..Len(descriptions) :
        \E i \in 1..Len(text_pages) : TitlesMatch(text_pages[i], descriptions[j])}

\* The chunks of the loop over the descriptions no page has used, from j on.
RECURSIVE UnmatchedChunks(_, _, _, _)
UnmatchedChunks(descriptions, used, filename, j) ==
    IF j > Len(descriptions) THEN <<>>
    ELSE (IF j \notin used
          THEN <<[content |-> descriptions[j], filename |-> filename]>> ELSE <<>>)
         \o UnmatchedChunks(descriptions, used, filename, j + 1)

\* Mutant of DocChunks: only the first page is dropped, not the first description.
DocChunksKeepDescription(doc, remove_first_page) ==
    LET filename == IF doc.filename = None THEN "unknown" ELSE doc.filename[1]
        pages0 == SplitOn(IF doc.text = None THEN <<>> ELSE doc.text[1], "\f")
        descriptions == IF doc.pages_description = None THEN <<>>
                        ELSE doc.pages_description[1]
        text_pages == IF remove_first_page THEN Tail(pages0) ELSE pages0
    IN  PageChunks(text_pages, descriptions, filename, 1)
            \o UnmatchedChunks(descriptions, UsedDescIdx(text_pages, descriptions),
                               filename, 1)

\* The body of the loop over docs: the chunks one doc adds.
DocChunks(doc, remove_first_page) ==
    LET filename == IF doc.filename = None THEN "unknown" ELSE doc.filename[1]
        pages0 == SplitOn(IF doc.text = None THEN <<>> ELSE doc.text[1], "\f")
        descs0 == IF doc.pages_description = None THEN <<>>
                  ELSE doc.pages_description[1]
        drop == remove_first_page /\ Len(pages0) > 0
        text_pages == IF drop THEN Tail(pages0) ELSE pages0
        descriptions == IF drop /\ Len(descs0) > 0 THEN Tail(descs0) ELSE descs0
    IN  PageChunks(text_pages, descriptions, filename, 1)
            \o UnmatchedChunks(descriptions, UsedDescIdx(text_pages, descriptions),
                               filename, 1)

RECURSIVE merge_and_chunk(_, _)
merge_and_chunk(docs, remove_first_page) ==
    IF docs = <<>> THEN <<>>
    ELSE DocChunks(Head(docs), remove_first_page)
            \o merge_and_chunk(Tail(docs), remove_first_page)

\* Pages: empty; a title; a title after a space; a title in upper case with a
\* body; another title.
PageSamples ==
    {<<>>, <<"a">>, <<" ", "a">>, <<"A", "\n", "x">>, <<"x">>}
\* Descriptions: title and body; a title in upper case alone; title after a
\* space, and body; an empty first line; a title no page has.
DescSamples ==
    {<<"a", "\n", "b">>, <<"A">>, <<" ", "a", "\n", "b">>, <<"\n", "b">>,
     <<"b", "\n", "b">>}

\* sequences over S of length lo up to hi
SeqsFromTo(S, lo, hi) == UNION {[1..k -> S] : k \in lo..hi}

\* The first doc of a call: a text of 1..MaxTextPages pages or no text, at most
\* MaxDescs descriptions or none.
ChunkDocs ==
    [filename : {Some("d1")},
     text : {None} \cup {Some(JoinWith(ps, "\f")) : ps \in SeqsFromTo(PageSamples, 1, MaxTextPages)},
     pages_description : {None} \cup {Some(ds) : ds \in SeqsUpTo(DescSamples, MaxDescs)}]
\* The docs after the first: one without any key, one with two pages and a
\* description of the second.
TailDocs ==
    {[filename |-> None, text |-> None, pages_description |-> None],
     [filename |-> Some("d2"), text |-> Some(<<"x", "\f", "a">>),
      pages_description |-> Some(<<<<"a", "\n", "b">>>>)]}
ChunkInputs ==
    {<<>>} \cup {<<d>> \o rest : d \in ChunkDocs, rest \in SeqsUpTo(TailDocs, MaxChunkDocs - 1)}

MergeAndChunk ==
    /\ mc_pc = "in"
    /\ mc_result' = merge_and_chunk(mc_docs, mc_remove)
    /\ mc_pc' = "done"
    /\ UNCHANGED <<mc_docs, mc_remove, oldVars, lcVars, odVars, lastVars>>

(***************************************************************************)
(* chunking.clean_content                                                  *)
(* A piece is a record of content and filename.                            *)
(***************************************************************************)

\* Most lines in the content of a piece, most pieces.
MaxCleanLines == 3
MaxPieces == 2

\* Within the alphabet of the contents: the digits, and what \w matches (all
\* but the space and the line break).
IsDigitChar(c) == c \in {"1", "2", "3"}
IsCleanWordChar(c) == c \notin {" ", "\n", "\t"}

\* str.lower() on the letters of the contents.
LowerCleanChar(c) == CASE c = "T" -> "t" [] c = "S" -> "s" [] OTHER -> c

\* re.fullmatch(r"\d{1,2}", line)
IsPageNumber(line) ==
    Len(line) \in 1..2 /\ \A i \in 1..Len(line) : IsDigitChar(line[i])

\* [line.strip() for line in content.strip().split('\n')], without the lines
\* that are empty or a page number.
KeptLines(content) ==
    LET lines == SplitOn(Strip(content), "\n")
    IN  SelectSeq([i \in 1..Len(lines) |-> Strip(lines[i])],
                  LAMBDA line : line # <<>> /\ ~IsPageNumber(line))

\* t[k:] starts with word, case ignored (k is 0-based).
HasWordAt(t, k, word) ==
    /\ k + Len(word) <= Len(t)
    /\ \A j \in 1..Len(word) : LowerCleanChar(t[k + j]) = word[j]

\* The length, from k on, of the run of characters that are spaces (ws) or
\* word characters (~ws).
RECURSIVE RunLenAt(_, _, _)
RunLenAt(t, k, ws) ==
    IF k >= Len(t) THEN 0
    ELSE IF (ws /\ IsSpace(t[k + 1])) \/ (~ws /\ IsCleanWordChar(t[k + 1]))
         THEN 1 + RunLenAt(t, k + 1, ws)
         ELSE 0

\* \b at k: one of t[k-1], t[k] (0-based) is a word character, the other not.
IsBoundary(t, k) ==
    (k >= 1 /\ IsCleanWordChar(t[k])) # (k < Len(t) /\ IsCleanWordChar(t[k + 1]))

\* Where a match of "slide\s*\w+\b" that starts at k ends, or 0.
SlideTailEnd(t, k) ==
    IF ~HasWordAt(t, k, <<"s", "l", "i", "d", "e">>) THEN 0
    ELSE TheOne({TheOne({IF w = 0 THEN 0 ELSE a + w : w \in {RunLenAt(t, a, FALSE)}}) :
                 a \in {k + 5 + RunLenAt(t, k + 5, TRUE)}})

\* Where a match of r"\b(?:the|this)\s*slide\s*\w+\b" that starts at k ends,
\* or 0 when there is none.
PhraseEnd(t, k) ==
    IF ~IsBoundary(t, k) THEN 0
    ELSE IF HasWordAt(t, k, <<"t", "h", "e">>)
         THEN SlideTailEnd(t, k + 3 + RunLenAt(t, k + 3, TRUE))
         ELSE IF HasWordAt(t, k, <<"t", "h", "i", "s">>)
              THEN SlideTailEnd(t, k + 4 + RunLenAt(t, k + 4, TRUE))
              ELSE 0

\* re.sub(r"\b(?:the|this)\s*slide\s*\w+\b", "", text, flags=re.IGNORECASE),
\* from k on.
RECURSIVE RemoveSlidePhrases(_, _)
RemoveSlidePhrases(t, k) ==
    IF k >= Len(t) THEN <<>>
    ELSE TheOne({IF e > 0 THEN RemoveSlidePhrases(t, e)
                 ELSE <<t[k + 1]>> \o RemoveSlidePhrases(t, k + 1) :
                 e \in {PhraseEnd(t, k)}})

\* re.sub(c + "+", c, t) for c a space, re.sub(c + "{2,}", c, t) for a line break.
RECURSIVE CollapseRuns(_, _)
CollapseRuns(t, c) ==
    IF t = <<>> THEN <<>>
    ELSE IF Head(t) = c /\ Len(t) >= 2 /\ t[2] = c THEN CollapseRuns(Tail(t), c)
         ELSE <<Head(t)>> \o CollapseRuns(Tail(t), c)

\* Mutant of CleanText: the page numbers stay.
CleanTextKeepNumbers(content) ==
    LET lines == SplitOn(Strip(content), "\n")
        kept == SelectSeq([i \in 1..Len(lines) |-> Strip(lines[i])],
                          LAMBDA line : line # <<>>)
    IN  Strip(CollapseRuns(CollapseRuns(
            RemoveSlidePhrases(JoinWith(kept, "\n"), 0), " "), "\n"))

\* The body of the loop: the content of the cleaned piece.
CleanText(content) ==
    Strip(CollapseRuns(CollapseRuns(
        RemoveSlidePhrases(JoinWith(KeptLines(content), "\n"), 0), " "), "\n"))

clean_content(pieces) ==
    [i \in 1..Len(pieces) |->
        [content |-> CleanText(pieces[i].content), filename |-> pieces[i].filename]]

\* Lines: empty; page numbers, one between spaces; three digits; words two
\* spaces apart; a slide phrase before a word; a slide phrase alone; the two
\* halves of a slide phrase; a word.
LineSamples ==
    {<<>>,
     <<" ", "1", " ">>,
     <<"1", "2">>,
     <<"1", "2", "3">>,
     <<"a", " ", " ", "x", " ">>,
     <<"t", "h", "i", "s", " ", "s", "l", "i", "d", "e", " ", "x", " ", "a">>,
     <<"T", "h", "e", " ", "S", "l", "i", "d", "e", " ", "x">>,
     <<"t", "h", "e">>,
     <<"s", "l", "i", "d", "e", " ", "x">>,
     <<"a">>}

\* The first piece: any content of 1..MaxCleanLines lines.
FirstPieces ==
    [content : {JoinWith(ls, "\n") : ls \in SeqsFromTo(LineSamples, 1, MaxCleanLines)},
     filename : {"f1"}]
\* The pieces after the first.
TailPieces ==
    {[content |-> <<"1", "\n", "a">>, filename |-> "f2"],
     [content |-> <<"a", " ", "\n", "\n", "x">>, filename |-> "f1"]}
CleanInputs ==
    {<<>>} \cup {<<q>> \o rest : q \in FirstPieces, rest \in SeqsUpTo(TailPieces, MaxPieces - 1)}

CleanContent ==
    /\ cc_pc = "in"
    /\ cc_result' = clean_content(cc_pieces)
    /\ cc_pc' = "done"
    /\ UNCHANGED <<cc_pieces, oldVars, lcVars, odVars, mcVars, csVars, tailVars>>

(***************************************************************************)
(* _candidate_snippets applied to a cited text                             *)
(***************************************************************************)

\* Longest of the short cited texts.
MaxCandLen == 4

\* Characters of the short cited texts: a letter, a space, a parenthesis, U+0002.
CandAlphabet == {"a", " ", "(", "STX"}

\* Cited texts beyond the short ones: four words of five letters, whose phrase
\* is the text itself; 300 and 301 letters; 301 characters in two runs, whose
\* middle slice differs from its head; two words of 150 letters in parentheses.
TextEqualWords == Rep("a", 5) \o SP \o Rep("b", 5) \o SP \o Rep("c", 5) \o SP \o Rep("d", 5)
Text300 == Rep("a", 300)
Text301 == Rep("a", 301)
TextTwoRuns == Rep("x", 100) \o Rep("a", 201)
TextLongParen == <<"(">> \o Rep("a", 150) \o SP \o Rep("b", 150) \o <<")">>
CandSamples ==
    {Text21, TextWords, TextParen, TextEqualWords, Text300, Text301, TextTwoRuns,
     TextLongParen}

CandInputs == SeqsUpTo(CandAlphabet, MaxCandLen) \cup CandSamples

CandidateSnippets ==
    /\ cs_pc = "in"
    /\ cs_result' = _candidate_snippets(cs_full)
    /\ cs_pc' = "done"
    /\ UNCHANGED <<cs_full, oldVars, lcVars, odVars, mcVars, ccVars, tailVars>>

(***************************************************************************)
(* cli.run_pipeline: the loop over the files, then merge_and_chunk and      *)
(* clean_content.  The embeddings built from cleaned are not modelled.      *)
(***************************************************************************)

\* Most files list_pdfs returns, most pages of a file.
MaxFiles == 1
MaxImages == 3

\* os.path.basename(f) of the i-th file.
PdfName(i) == <<"d", i>>

\* What extract_text_from_doc gives: no text (also when it raises), or two
\* pages separated by a form feed.
ExtractedTexts == {<<>>, <<"x", "\f", "a">>}

\* What analyzer.analyze_image gives for the image of page p: a title and a
\* body that names the page.
PageDesc(p) ==
    <<IF p % 2 = 0 THEN "a" ELSE "b", "\n", "x">> \o Rep("b", p) \o <<"x">>

\* images_for_vision, as the page numbers of the images: images[1:] when
\* remove_first_page is set and there is more than one image.
ImagesForVision(n, remove_first_page) ==
    IF remove_first_page /\ n > 1 THEN [k \in 1..(n - 1) |-> k + 1]
    ELSE [k \in 1..n |-> k]

\* One turn of the loop for f in files: text, images, pages_description; the
\* vision analysis of the pages in fails raises and leaves "".
ProcessFile ==
    /\ rp_pc = "files"
    /\ rp_todo > 0
    /\ \E extracted \in ExtractedTexts, n \in 0..MaxImages :
         \E fails \in SUBSET (1..n) :
           LET text == IF ~rp_skip_text /\ rp_include_text THEN extracted ELSE <<>>
               images_for_vision == ImagesForVision(n, rp_remove)
               analysed == IF ~rp_skip_vision THEN images_for_vision ELSE <<>>
               pages_description ==
                   [k \in 1..Len(analysed) |->
                       IF analysed[k] \in fails THEN <<>> ELSE PageDesc(analysed[k])]
           IN  /\ rp_docs' = Append(rp_docs,
                      [filename |-> Some(PdfName(Len(rp_docs) + 1)),
                       text |-> Some(text),
                       pages_description |-> Some(pages_description)])
               /\ rp_images' = Append(rp_images, n)
               /\ rp_analyzed' = Append(rp_analyzed, analysed)
    /\ rp_todo' = rp_todo - 1
    /\ UNCHANGED <<rp_pc, rp_remove, rp_include_text, rp_skip_text, rp_skip_vision,
                   rp_parsed, rp_pieces, rp_cleaned>>
    /\ UNCHANGED <<oldVars, lcVars, odVars, mcVars, ccVars, csVars, rcVars>>

\* After the loop: json.dump(docs), pieces = merge_and_chunk(docs,
\* remove_first_page=settings.remove_first_page), cleaned = clean_content(pieces).
ChunkAndClean ==
    /\ rp_pc = "files"
    /\ rp_todo = 0
    /\ rp_parsed' = Some(rp_docs)
    /\ rp_pieces' = merge_and_chunk(rp_docs, rp_remove)
    /\ rp_cleaned' = clean_content(rp_pieces')
    /\ rp_pc' = "done"
    /\ UNCHANGED <<rp_remove, rp_include_text, rp_skip_text, rp_skip_vision, rp_todo,
                   rp_docs, rp_images, rp_analyzed>>
    /\ UNCHANGED <<oldVars, lcVars, odVars, mcVars, ccVars, csVars, rcVars>>

(***************************************************************************)
(* utils.run_concurrently: the calling thread submits the callables, waits  *)
(* in as_completed and collects; the worker threads of the pool take the    *)
(* work items from a FIFO queue, at most max_workers at a time.             *)
(***************************************************************************)

\* Most callables, most worker threads.
MaxCallables == 3
MaxWorkers == 2

\* What the i-th callable returns, and what it raises.
ResultOf(i) == <<"result", i>>
ErrorOf(i) == <<"error", i>>

\* The futures in the given state.
InState(futures, st) == {i \in 1..Len(futures) : futures[i].state = st}

\* futures = [executor.submit(fn) for fn in callables]: one more submit.
Submit ==
    /\ rc_pc = "run"
    /\ Len(rc_futures) < rc_n
    /\ rc_futures' = Append(rc_futures, [state |-> "pending", outcome |-> None])
    /\ UNCHANGED <<rc_pc, rc_n, rc_max_workers, rc_finished, rc_yielded, rc_results>>
    /\ UNCHANGED <<oldVars, lcVars, odVars, mcVars, ccVars, csVars, rpVars>>

\* A worker thread takes the oldest work item of the queue and runs it.
StartWork ==
    /\ rc_pc = "run"
    /\ Cardinality(InState(rc_futures, "running")) < rc_max_workers
    /\ \E i \in InState(rc_futures, "pending") :
         /\ \A j \in InState(rc_futures, "pending") : i <= j
         /\ rc_futures' = [rc_futures EXCEPT ![i].state = "running"]
    /\ UNCHANGED <<rc_pc, rc_n, rc_max_workers, rc_finished, rc_yielded, rc_results>>
    /\ UNCHANGED <<oldVars, lcVars, odVars, mcVars, ccVars, csVars, rpVars>>

\* A running callable returns or raises; its future holds the outcome.
FinishWork ==
    /\ rc_pc = "run"
    /\ \E i \in InState(rc_futures, "running") :
         \E out \in {<<"ok", ResultOf(i)>>, <<"raise", ErrorOf(i)>>} :
            /\ rc_futures' = [rc_futures EXCEPT ![i] =
                                  [state |-> "finished", outcome |-> Some(out)]]
            /\ rc_finished' = Append(rc_finished, i)
    /\ UNCHANGED <<rc_pc, rc_n, rc_max_workers, rc_yielded, rc_results>>
    /\ UNCHANGED <<oldVars, lcVars, odVars, mcVars, ccVars, csVars, rpVars>>

\* for f in as_completed(futures): pass -- the next finished future, those
\* finished before the call in any order.
AsCompleted ==
    /\ rc_pc = "run"
    /\ Len(rc_futures) = rc_n
    /\ \E i \in InState(rc_futures, "finished") :
         /\ \A k \in 1..Len(rc_yielded) : rc_yielded[k] # i
         /\ rc_yielded' = Append(rc_yielded, i)
    /\ UNCHANGED <<rc_pc, rc_n, rc_max_workers, rc_futures, rc_finished, rc_results>>
    /\ UNCHANGED <<oldVars, lcVars, odVars, mcVars, ccVars, csVars, rpVars>>

\* Mutant of Collect: the results are collected in the order of as_completed.
CollectAsCompleted ==
    /\ rc_pc = "run"
    /\ Len(rc_futures) = rc_n
    /\ Len(rc_yielded) = rc_n
    /\ LET raising == {k \in 1..rc_n : rc_futures[rc_yielded[k]].outcome[1][1] = "raise"}
       IN  IF raising = {}
           THEN /\ rc_results' = [k \in 1..rc_n |-> rc_futures[rc_yielded[k]].outcome[1][2]]
                /\ rc_pc' = "returned"
           ELSE /\ rc_results' =
                      rc_futures[rc_yielded[CHOOSE k \in raising : \A j \in raising : k <= j]].outcome[1][2]
                /\ rc_pc' = "raised"
    /\ UNCHANGED <<rc_n, rc_max_workers, rc_futures, rc_finished, rc_yielded>>
    /\ UNCHANGED <<oldVars, lcVars, odVars, mcVars, ccVars, csVars, rpVars>>

\* After the loop over as_completed: results = [f.result() for f in futures],
\* the executor is shut down and results returned; f.result() raises what the
\* callable of f has raised.
Collect ==
    /\ rc_pc = "run"
    /\ Len(rc_futures) = rc_n
    /\ Len(rc_yielded) = rc_n
    /\ LET raising == {i \in 1..rc_n : rc_futures[i].outcome[1][1] = "raise"}
       IN  IF raising = {}
           THEN /\ rc_results' = [i \in 1..rc_n |-> rc_futures[i].outcome[1][2]]
                /\ rc_pc' = "returned"
           ELSE /\ rc_results' =
                      rc_futures[CHOOSE i \in raising : \A j \in raising : i <= j].outcome[1][2]
                /\ rc_pc' = "raised"
    /\ UNCHANGED <<rc_n, rc_max_workers, rc_futures, rc_finished, rc_yielded>>
    /\ UNCHANGED <<oldVars, lcVars, odVars, mcVars, ccVars, csVars, rpVars>>

(***************************************************************************)
(* _normalize_text applied to a raw string, then to its own output         *)
(***************************************************************************)

Normalize ==
    /\ nt_pc = "in"
    /\ nt_out' = _normalize_text(nt_s)
    /\ nt_pc' = "once"
    /\ UNCHANGED <<nt_s, nt_out2, rqVars, gcVars, fgVars, hlVars, newVars>>

Renormalize ==
    /\ nt_pc = "once"
    /\ nt_out2' = _normalize_text(nt_out)
    /\ nt_pc' = "twice"
    /\ UNCHANGED <<nt_s, nt_out, rqVars, gcVars, fgVars, hlVars, newVars>>

(***************************************************************************)
(* Specifications: each one runs one component, the others stay idle       *)
(***************************************************************************)

NormIdle ==
    /\ nt_pc = "off"
    /\ nt_s = <<>>
    /\ nt_out = <<>>
    /\ nt_out2 = <<>>

ResolveIdle ==
    /\ rq_pc = "off"
    /\ rq_linear = <<>>
    /\ rq_pages = <<>>
    /\ rq_quote = <<>>
    /\ rq_res = UnmatchedRes
    /\ rq_calls = <<>>

ColorIdle ==
    /\ gc_pc = "off"
    /\ gc_citation = [color |-> None, entity_type |-> None]
    /\ gc_result = <<>>
    /\ ENTITY_COLORS = EntityColorsTable
    /\ COLOR_NAMES = ColorNamesTable

ParseIdle ==
    /\ fg_pc = "off"
    /\ fg_obj = [start_page_number |-> None]
    /\ fg_result = <<>>

HighlightIdle ==
    /\ hl_pc = "off"
    /\ hl_doc = <<>>
    /\ hl_remaining = 0
    /\ hl_cit = NoCitation
    /\ hl_page_num = 0
    /\ hl_end_idx = 0
    /\ hl_cands = <<>>
    /\ hl_hit_this_page = 0
    /\ hl_found_exact_match = FALSE
    /\ hl_per_page_hits = <<>>
    /\ hl_annots = <<>>
    /\ hl_added = <<>>
    /\ hl_saved = 0
    /\ hl_summary = None
    /\ hl_searched = {}
    /\ hl_rects_found = 0
    /\ hl_fuzzy_called = FALSE
    /\ hl_fuzzy_hits = 0
    /\ hl_unparsed = 0
    /\ hl_item = None
    /\ hl_opened = FALSE

LoadIdle ==
    /\ lc_pc = "off"
    /\ lc_arg = <<>>
    /\ lc_file = <<"FileNotFoundError">>
    /\ lc_result = <<>>
    /\ lc_tried = <<>>

NoRun == [summary |-> [total_highlights |-> 0, per_page |-> <<>>], annots |-> <<>>]

OrderIdle ==
    /\ od_pc = "off"
    /\ od_doc = <<>>
    /\ od_cits = <<>>
    /\ od_env = [search_raises |-> {}, blocks_raise |-> {}, fail |-> {}]
    /\ od_perm = <<>>
    /\ od_first = NoRun
    /\ od_second = NoRun

\* The machines that came after the first five are idle.
ChunkIdle ==
    /\ mc_pc = "off"
    /\ mc_docs = <<>>
    /\ mc_remove = FALSE
    /\ mc_result = <<>>

CleanIdle ==
    /\ cc_pc = "off"
    /\ cc_pieces = <<>>
    /\ cc_result = <<>>

SnippetsIdle ==
    /\ cs_pc = "off"
    /\ cs_full = <<>>
    /\ cs_result = <<>>

PipelineIdle ==
    /\ rp_pc = "off"
    /\ rp_remove = FALSE
    /\ rp_include_text = FALSE
    /\ rp_skip_text = FALSE
    /\ rp_skip_vision = FALSE
    /\ rp_todo = 0
    /\ rp_docs = <<>>
    /\ rp_images = <<>>
    /\ rp_analyzed = <<>>
    /\ rp_parsed = None
    /\ rp_pieces = <<>>
    /\ rp_cleaned = <<>>

ConcurrentIdle ==
    /\ rc_pc = "off"
    /\ rc_n = 0
    /\ rc_max_workers = 0
    /\ rc_futures = <<>>
    /\ rc_finished = <<>>
    /\ rc_yielded = <<>>
    /\ rc_results = <<>>

TailIdle == PipelineIdle /\ ConcurrentIdle

LastIdle == CleanIdle /\ SnippetsIdle /\ TailIdle

NewIdle == LoadIdle /\ OrderIdle /\ ChunkIdle /\ LastIdle

\* _normalize_text on every raw string up to MaxNormLen.
InitNorm ==
    /\ nt_pc = "in"
    /\ nt_s \in SeqsUpTo(NormAlphabet, MaxNormLen)
    /\ nt_out = <<>>
    /\ nt_out2 = <<>>
    /\ ResolveIdle /\ ColorIdle /\ ParseIdle /\ HighlightIdle /\ NewIdle

NextNorm == Normalize \/ Renormalize

SpecNorm == InitNorm /\ [][NextNorm]_vars

\* two_pass_provenance_resolution on every linear text and page list.
InitResolve ==
    /\ rq_pc = "idle"
    /\ rq_linear \in SeqsUpTo(QuoteAlphabet, MaxTextLen)
    /\ rq_pages \in SeqsUpTo(SeqsUpTo(QuoteAlphabet, MaxPageLen), MaxDescPages)
    /\ rq_quote = <<>>
    /\ rq_res = UnmatchedRes
    /\ rq_calls = <<>>
    /\ NormIdle /\ ColorIdle /\ ParseIdle /\ HighlightIdle /\ NewIdle

NextResolve ==
    \/ ResolveCitationQuote
    \/ ResolveOutcomeQuote
    \/ NextQuote

SpecResolve == InitResolve /\ [][NextResolve]_vars

\* _get_color_for_citation on every pair of color and entity type.
InitColor ==
    /\ gc_pc = "in"
    /\ gc_citation \in [color : ColorValues, entity_type : EntityValues]
    /\ gc_result = <<>>
    /\ ENTITY_COLORS = EntityColorsTable
    /\ COLOR_NAMES = ColorNamesTable
    /\ NormIdle /\ ResolveIdle /\ ParseIdle /\ HighlightIdle /\ NewIdle

NextColor == GetColor

SpecColor == InitColor /\ [][NextColor]_vars

\* from_generic on every citation record.
InitParse ==
    /\ fg_pc = "in"
    /\ fg_obj \in PageObjs \cup AliasObjs
    /\ fg_result = <<>>
    /\ NormIdle /\ ResolveIdle /\ ColorIdle /\ HighlightIdle /\ NewIdle

NextParse == FromGeneric

SpecParse == InitParse /\ [][NextParse]_vars

\* highlight_pdf after doc = fitz.open(pdf_path), on every document and every
\* list of at most MaxCitations citations.
Init ==
    /\ hl_pc = "parse"
    /\ hl_doc \in Docs
    /\ hl_unparsed \in 0..MaxCitations
    /\ hl_item = None
    /\ hl_opened = FALSE
    /\ hl_remaining = 0
    /\ hl_cit = NoCitation
    /\ hl_page_num = 0
    /\ hl_end_idx = 0
    /\ hl_cands = <<>>
    /\ hl_hit_this_page = 0
    /\ hl_found_exact_match = FALSE
    /\ hl_per_page_hits = <<>>
    /\ hl_annots = [p \in 1..Len(hl_doc) |-> 0]
    /\ hl_added = <<>>
    /\ hl_saved = 0
    /\ hl_summary = None
    /\ hl_searched = {}
    /\ hl_rects_found = 0
    /\ hl_fuzzy_called = FALSE
    /\ hl_fuzzy_hits = 0
    /\ NormIdle /\ ResolveIdle /\ ColorIdle /\ ParseIdle /\ NewIdle

Next ==
    \/ NormalizeObject
    \/ NormalizeDict
    \/ OpenDocument
    \/ NextCitation
    \/ BeginPage
    \/ EndCitation
    \/ SearchCandidate
    \/ FinishPage
    \/ SaveAndReturn

Spec == Init /\ [][Next]_vars

\* load_citations_from_json on every argument of at most MaxJsonLen tokens and
\* every outcome of opening it as a file.
InitLoad ==
    /\ lc_pc = "in"
    /\ lc_arg \in SeqsUpTo(JsonAlphabet, MaxJsonLen)
    /\ lc_file \in OpenOutcomes
    /\ lc_arg = <<>> => lc_file = <<"FileNotFoundError">>  \* open("") finds no file
    /\ lc_result = <<>>
    /\ lc_tried = <<>>
    /\ NormIdle /\ ResolveIdle /\ ColorIdle /\ ParseIdle /\ HighlightIdle /\ OrderIdle
    /\ ChunkIdle /\ LastIdle

NextLoad == LoadCitations

SpecLoad == InitLoad /\ [][NextLoad]_vars

\* Two calls of highlight_pdf on every document, every list of at most
\* MaxCitations citations and every environment.
InitOrder ==
    /\ od_pc = "in"
    /\ od_doc \in Docs
    /\ od_cits \in SeqsUpTo(OrderCitations, MaxCitations)
    /\ od_env \in Environments
    /\ od_perm = <<>>
    /\ od_first = NoRun
    /\ od_second = NoRun
    /\ NormIdle /\ ResolveIdle /\ ColorIdle /\ ParseIdle /\ HighlightIdle /\ LoadIdle
    /\ ChunkIdle /\ LastIdle

NextOrder == RunGiven \/ RunPermuted

SpecOrder == InitOrder /\ [][NextOrder]_vars

\* merge_and_chunk on every list of docs of ChunkInputs, with and without
\* remove_first_page.
InitChunk ==
    /\ mc_pc = "in"
    /\ mc_docs \in ChunkInputs
    /\ mc_remove \in BOOLEAN
    /\ mc_result = <<>>
    /\ NormIdle /\ ResolveIdle /\ ColorIdle /\ ParseIdle /\ HighlightIdle /\ LoadIdle
    /\ OrderIdle /\ LastIdle

NextChunk == MergeAndChunk

SpecChunk == InitChunk /\ [][NextChunk]_vars

\* clean_content on every list of pieces of CleanInputs.
InitClean ==
    /\ cc_pc = "in"
    /\ cc_pieces \in CleanInputs
    /\ cc_result = <<>>
    /\ NormIdle /\ ResolveIdle /\ ColorIdle /\ ParseIdle /\ HighlightIdle /\ LoadIdle
    /\ OrderIdle /\ ChunkIdle /\ SnippetsIdle /\ TailIdle

NextClean == CleanContent

SpecClean == InitClean /\ [][NextClean]_vars

\* _candidate_snippets on every text of CandInputs.
InitSnippets ==
    /\ cs_pc = "in"
    /\ cs_full \in CandInputs
    /\ cs_result = <<>>
    /\ NormIdle /\ ResolveIdle /\ ColorIdle /\ ParseIdle /\ HighlightIdle /\ LoadIdle
    /\ OrderIdle /\ ChunkIdle /\ CleanIdle /\ TailIdle

NextSnippets == CandidateSnippets

SpecSnippets == InitSnippets /\ [][NextSnippets]_vars

\* run_pipeline with every setting, on at most MaxFiles files.
InitPipeline ==
    /\ rp_pc = "files"
    /\ rp_remove \in BOOLEAN
    /\ rp_include_text \in BOOLEAN
    /\ rp_skip_text \in BOOLEAN
    /\ rp_skip_vision \in BOOLEAN
    /\ rp_todo \in 0..MaxFiles
    /\ rp_docs = <<>>
    /\ rp_images = <<>>
    /\ rp_analyzed = <<>>
    /\ rp_parsed = None
    /\ rp_pieces = <<>>
    /\ rp_cleaned = <<>>
    /\ NormIdle /\ ResolveIdle /\ ColorIdle /\ ParseIdle /\ HighlightIdle /\ LoadIdle
    /\ OrderIdle /\ ChunkIdle /\ CleanIdle /\ SnippetsIdle /\ ConcurrentIdle

NextPipeline ==
    \/ ProcessFile
    \/ ChunkAndClean

SpecPipeline == InitPipeline /\ [][NextPipeline]_vars

\* run_concurrently on up to MaxCallables callables with 1..MaxWorkers workers.
InitConcurrent ==
    /\ rc_pc = "run"
    /\ rc_n \in 0..MaxCallables
    /\ rc_max_workers \in 1..MaxWorkers
    /\ rc_futures = <<>>
    /\ rc_finished = <<>>
    /\ rc_yielded = <<>>
    /\ rc_results = <<>>
    /\ NormIdle /\ ResolveIdle /\ ColorIdle /\ ParseIdle /\ HighlightIdle /\ LoadIdle
    /\ OrderIdle /\ ChunkIdle /\ CleanIdle /\ SnippetsIdle /\ PipelineIdle

NextConcurrent ==
    \/ Submit
    \/ StartWork
    \/ FinishWork
    \/ AsCompleted
    \/ Collect

SpecConcurrent == InitConcurrent /\ [][NextConcurrent]_vars

(***************************************************************************)
(* Properties                                                              *)
(***************************************************************************)

\* quote occurs in text at 0-based index k.
OccursAt(text, quote, k) ==
    /\ k >= 0
    /\ k + Len(quote) <= Len(text)
    /\ \A j \in 1..Len(quote) : text[k + j] = quote[j]

Occurs(text, quote) == \E k \in 0..Len(text) : OccursAt(text, quote, k)

\* k is the index of the first occurrence of quote in text.
FirstAt(text, quote, k) ==
    /\ OccursAt(text, quote, k)
    /\ \A j \in 0..(k - 1) : ~OccursAt(text, quote, j)

\* C3: pass 1 -- a non-empty quote that occurs in the linear text resolves to
\* matched/text at its first occurrence, end = start + len(quote), page null,
\* and no page description is consulted.
C3_Pass1FirstOccurrence ==
    (rq_pc = "done" /\ rq_quote # <<>> /\ Occurs(rq_linear, rq_quote)) =>
        /\ rq_res.offset_status = "matched"
        /\ rq_res.source = "text"
        /\ rq_res.start_offset # None
        /\ FirstAt(rq_linear, rq_quote, rq_res.start_offset[1])
        /\ rq_res.end_offset = Some(rq_res.start_offset[1] + Len(rq_quote))
        /\ rq_res.page = None
        /\ rq_calls = <<0>>

\* C3 witness: the quote occurs twice in the linear text, first at a non-zero
\* index, and a page description contains it too.
C3_Witness ==
    /\ rq_pc = "done"
    /\ rq_quote # <<>>
    /\ \E j, k \in 1..Len(rq_linear) :
         j < k /\ OccursAt(rq_linear, rq_quote, j) /\ OccursAt(rq_linear, rq_quote, k)
    /\ ~OccursAt(rq_linear, rq_quote, 0)
    /\ \E i \in 1..Len(rq_pages) : Occurs(rq_pages[i], rq_quote)
    /\ rq_res.source = "text"

\* C4: pass 2 -- a non-empty quote absent from the linear text and present in a
\* page description resolves to matched/vision on the first such page (1-based),
\* at its first occurrence in that page; pages are searched in order, after
\* pass 1 and only when pass 1 found nothing.
C4_Pass2FirstPage ==
    /\ (rq_pc = "done" /\ rq_quote # <<>> /\ ~Occurs(rq_linear, rq_quote)
          /\ \E i \in 1..Len(rq_pages) : Occurs(rq_pages[i], rq_quote)) =>
        /\ rq_res.offset_status = "matched"
        /\ rq_res.source = "vision"
        /\ rq_res.page # None
        /\ rq_res.page[1] \in 1..Len(rq_pages)
        /\ Occurs(rq_pages[rq_res.page[1]], rq_quote)
        /\ \A i \in 1..(rq_res.page[1] - 1) : ~Occurs(rq_pages[i], rq_quote)
        /\ rq_res.start_offset # None
        /\ FirstAt(rq_pages[rq_res.page[1]], rq_quote, rq_res.start_offset[1])
        /\ rq_res.end_offset = Some(rq_res.start_offset[1] + Len(rq_quote))
        /\ rq_calls = [n \in 1..(rq_res.page[1] + 1) |-> n - 1]
    /\ (rq_pc = "done" /\ Len(rq_calls) > 1) =>
        /\ rq_calls[1] = 0
        /\ \A n \in 2..Len(rq_calls) : rq_calls[n] = n - 1
        /\ rq_quote = <<>> \/ ~Occurs(rq_linear, rq_quote)

\* C4 witness: the quote is absent from the linear text and from page 1, and
\* occurs on page 2 at a non-zero index.
C4_Witness ==
    /\ rq_pc = "done"
    /\ rq_quote # <<>>
    /\ rq_linear # <<>>
    /\ Len(rq_pages) >= 2
    /\ rq_pages[1] # <<>>
    /\ rq_res.source = "vision"
    /\ rq_res.page = Some(2)
    /\ rq_res.start_offset = Some(1)

\* C5: a quote that occurs neither in the linear text nor in any page
\* description resolves, as a returned value, to unmatched with null offsets and
\* null page.
C5_UnmatchedIsAValue ==
    (rq_pc = "done" /\ ~Occurs(rq_linear, rq_quote)
       /\ \A i \in 1..Len(rq_pages) : ~Occurs(rq_pages[i], rq_quote)) =>
        /\ rq_res.offset_status = "unmatched"
        /\ rq_res.start_offset = None
        /\ rq_res.end_offset = None
        /\ rq_res.page = None

\* C5 witness: nothing matches although the linear text is non-empty and the
\* page list holds an empty and a non-empty description.
C5_Witness ==
    /\ rq_pc = "done"
    /\ rq_quote # <<>>
    /\ rq_linear # <<>>
    /\ \E i, j \in 1..Len(rq_pages) : rq_pages[i] = <<>> /\ rq_pages[j] # <<>>
    /\ rq_res.offset_status = "unmatched"
    /\ Len(rq_calls) = 1 + Len(rq_pages)

\* C6: the color is resolved in priority order -- a recognised color name,
\* else a recognised entity type, else the default -- without raising and
\* without changing the two tables.
C6_ColorPriority ==
    /\ ENTITY_COLORS = EntityColorsTable
    /\ COLOR_NAMES = ColorNamesTable
    /\ gc_pc = "done" =>
        LET c == gc_citation.color
            e == gc_citation.entity_type
            colorKnown  == c # None /\ Lower(c[1]) \in DOMAIN ColorNamesTable
            entityKnown == e # None /\ Lower(e[1]) \in DOMAIN EntityColorsTable
        IN  /\ gc_result[1] = "ok"
            /\ colorKnown => gc_result[2] = ColorNamesTable[Lower(c[1])]
            /\ (~colorKnown /\ entityKnown) => gc_result[2] = EntityColorsTable[Lower(e[1])]
            /\ (~colorKnown /\ ~entityKnown) => gc_result[2] = EntityColorsTable["default"]

\* C6 witness: a recognised color in upper case won over a recognised entity type
\* whose configured color differs.
C6_Witness ==
    /\ gc_pc = "done"
    /\ gc_citation.color = Some("RED")
    /\ gc_citation.entity_type = Some("method")
    /\ gc_result = <<"ok", <<2, 0, 0>>>>

\* C10: every citation from_generic returns has end_page_number >=
\* start_page_number, and the end page equals the start page when the record
\* carries no end page.
C10_EndNotBeforeStart ==
    (fg_pc = "done" /\ fg_result[1] = "ok") =>
        /\ fg_result[2].end_page_number[1] >= fg_result[2].start_page_number
        /\ (fg_obj.end_page_number = None /\ fg_obj.page_location = None) =>
              fg_result[2].end_page_number[1] = fg_result[2].start_page_number

\* C7: _normalize_text is idempotent, and its output holds no line break, no
\* U+0002, no two consecutive whitespace characters and no leading or trailing
\* whitespace.
C7_NormalizeIdempotent ==
    /\ nt_pc = "twice" => nt_out2 = nt_out
    /\ nt_pc \in {"once", "twice"} =>
        /\ \A i \in 1..Len(nt_out) : nt_out[i] \notin {"\n", "STX"}
        /\ \A i \in 1..(Len(nt_out) - 1) : ~(IsSpace(nt_out[i]) /\ IsSpace(nt_out[i + 1]))
        /\ nt_out # <<>> => (~IsSpace(nt_out[1]) /\ ~IsSpace(nt_out[Len(nt_out)]))

\* C7 witness: a raw string with a hyphenated line break, a U+0002 and a tab has
\* been normalised twice to a non-empty result.
C7_Witness ==
    /\ nt_pc = "twice"
    /\ \E i \in 1..(Len(nt_s) - 1) : nt_s[i] = "-" /\ nt_s[i + 1] = "\n"
    /\ \E i \in 1..Len(nt_s) : nt_s[i] = "STX"
    /\ \E i \in 1..Len(nt_s) : nt_s[i] = "\t"
    /\ nt_out # <<>>
    /\ nt_out # nt_s

(***************************************************************************)
(* highlight_pdf: when the fuzzy fallback runs                             *)
(***************************************************************************)

\* C1: on a page where the exact search of some candidate returned at least one
\* rectangle, the fuzzy block matcher is not invoked for that citation,
\* whatever became of annotating the rectangles.
C1_NoFuzzyAfterExactRects == hl_rects_found > 0 => ~hl_fuzzy_called

\* An annotation step of the fuzzy fallback added a rectangle annotation.
AddedRect == \E k \in 1..Len(hl_added) : hl_added[k].kind = "rect"

\* C2: the fuzzy matcher runs only for a normalized text of 21 characters or
\* more; when the candidates of a page are done without an exact hit and the
\* normalized text has at most 20 characters, the step that ends the page adds
\* no annotation, does not call the fuzzy matcher and leaves the hit count of the
\* page as it was.
C2_ShortTextNoFuzzy ==
    [][(hl_pc = "finish" /\ hl_pc' # "finish") =>
         LET n == Len(_normalize_text(hl_cit.cited_text))
             p == hl_page_num + 1
         IN  /\ hl_fuzzy_called' => n >= 21
             /\ (n <= 20 /\ ~hl_found_exact_match) =>
                    /\ ~hl_fuzzy_called'
                    /\ hl_added' = <<>>
                    /\ hl_annots' = hl_annots
                    /\ hl_fuzzy_hits' = 0
                    /\ GetOr0(hl_per_page_hits', p) = GetOr0(hl_per_page_hits, p)]_vars

\* The fuzzy matcher ran for a text of exactly 21 characters and drew a rectangle.
C2_Witness ==
    /\ hl_pc = "pages"
    /\ hl_fuzzy_called
    /\ ~hl_found_exact_match
    /\ Len(_normalize_text(hl_cit.cited_text)) = 21
    /\ hl_fuzzy_hits > 0
    /\ AddedRect

(***************************************************************************)
(* highlight_pdf: the pages of a citation                                  *)
(***************************************************************************)

\* C8: whatever the integer page numbers of a citation, only pages 1..page_count
\* are accessed, every key of per_page lies in 1..page_count, in the running map
\* and in the returned summary, no access to a page raises, and the call does not
\* fail on an item that carries an integer start page.
C8_PagesWithinDocument ==
    /\ hl_pc # "error"
    /\ hl_pc = "ValueError" => hl_item[1].start_page_number = None
    /\ hl_searched \subseteq 1..Len(hl_doc)
    /\ DOMAIN hl_per_page_hits \subseteq 1..Len(hl_doc)
    /\ hl_summary # None => DOMAIN hl_summary[1].per_page \subseteq 1..Len(hl_doc)

\* clamp(p) = min(max(p, 1), page_count)
Clamp(p, page_count) == Min(Max(p, 1), page_count)

\* C9: when a citation is done, the pages searched for it are exactly those from
\* clamp(start_page) to clamp(end_page), the end page being the start page when
\* none is given, in every document of at least one page.
C9_ClampedNotDropped ==
    (hl_pc = "pages" /\ hl_page_num > hl_end_idx /\ Len(hl_doc) >= 1) =>
        LET end_page == IF hl_cit.end_page_number = None THEN hl_cit.start_page_number
                        ELSE hl_cit.end_page_number[1]
        IN  hl_searched = Clamp(hl_cit.start_page_number, Len(hl_doc))
                            ..Clamp(end_page, Len(hl_doc))

(***************************************************************************)
(* from_generic: records without a page, and the order of the aliases      *)
(***************************************************************************)

\* The record carries no page: nothing under start_page_number, page_number
\* and page, and no page_location or one without a start page.
NoPageValue(obj) ==
    /\ obj.start_page_number = None
    /\ obj.page_number = None
    /\ obj.page = None
    /\ \/ obj.page_location = None
       \/ /\ obj.page_location[1].start_page_number = None
          /\ obj.page_location[1].page_number = None

\* C11: from_generic on a record that carries no page raises the error of a
\* malformed citation and returns no citation: no page is made up for it.
C11_NoPageIsAnError ==
    (fg_pc = "done" /\ NoPageValue(fg_obj)) => fg_result = <<"ValueError">>

\* A record with a text, an end page and a location that holds only an end page
\* was refused.
C11_Witness ==
    /\ fg_pc = "done"
    /\ NoPageValue(fg_obj)
    /\ fg_obj.end_page_number = Some(1)
    /\ fg_obj.page_location # None
    /\ fg_obj.page_location[1].end_page_number = Some(2)
    /\ fg_result = <<"ValueError">>

FirstTruthyStr(a, b, c) == IF TruthyStr(a) THEN a ELSE IF TruthyStr(b) THEN b ELSE c
FirstTruthyInt(a, b, c) == IF TruthyInt(a) THEN a ELSE IF TruthyInt(b) THEN b ELSE c

NoPageRecord ==
    [cited_text |-> Some(TextQ), text |-> None, entity_type |-> None, type |-> None,
     category |-> None, color |-> None, highlight_color |-> None,
     start_page_number |-> None, page_number |-> None, page |-> None,
     end_page_number |-> None, page_location |-> None]

\* C13: an argument that is neither the path of a readable file nor valid JSON
\* makes load_citations_from_json raise an error whose kind differs from the
\* kind from_generic raises for a citation without a page.
C13_FormatErrorIsDistinct ==
    (lc_pc = "done" /\ lc_file[1] # "ok" /\ json_loads(lc_arg)[1] # "ok") =>
        /\ lc_result[1] # "ok"
        /\ lc_result[1] # from_generic(NoPageRecord)[1]

\* What the decoded data must give: a list itself, the value under "citations"
\* of an object, an error for every other shape.
GivesExpected(data, res) ==
    CASE data[1] = "list" -> res = <<"ok", data>>
      [] data[1] = "dict" /\ data[2] = <<"citations">> -> res = <<"ok", data[3][1]>>
      [] OTHER -> res[1] # "ok"

\* C14: the argument is opened as a file first and decoded as inline JSON only
\* when no such file exists; decoded data that is a list is returned, of an
\* object with a citations key the value of the key is returned, and every
\* other decoded shape raises.
C14_FileFirstThenShape ==
    lc_pc = "done" =>
        /\ lc_tried[1] = "file"
        /\ InSeq("inline", lc_tried) => lc_file = <<"FileNotFoundError">>
        /\ (lc_file[1] = "ok" /\ json_loads(lc_file[2])[1] = "ok") =>
              GivesExpected(json_loads(lc_file[2])[2], lc_result)
        /\ (lc_file = <<"FileNotFoundError">> /\ json_loads(lc_arg)[1] = "ok") =>
              GivesExpected(json_loads(lc_arg)[2], lc_result)
        /\ lc_file = <<"OSError">> => lc_result[1] # "ok"

\* The argument names a file that holds a list and is itself the JSON text of
\* an object with a citations key: the list of the file was returned.
C14_Witness ==
    /\ lc_pc = "done"
    /\ lc_file = <<"ok", <<"[", "1", "]">>>>
    /\ lc_arg = <<"{", "citations:", "null", "}">>
    /\ lc_tried = <<"file">>
    /\ lc_result = <<"ok", <<"list", <<<<"int", 1>>>>>>>>

(***************************************************************************)
(* highlight_pdf: failures of single annotations, and the counts           *)
(***************************************************************************)

\* C15: whichever rectangles fail to be annotated, the exact search and the
\* fuzzy matcher return the number of annotations that succeeded, which is the
\* number of annotations the page has gained, and highlight_pdf goes on.
C15_AnnotationFailuresIsolated ==
    [][(hl_pc \in {"search", "finish"}) =>
         LET p == hl_page_num + 1
             gained == Len(hl_added')
         IN  /\ hl_pc' \in {"search", "finish", "pages"}
             /\ hl_hit_this_page' = hl_hit_this_page + gained
             /\ hl_annots'[p] = hl_annots[p] + gained]_vars

\* Two rectangles were found, the first could not be annotated and the second,
\* in block 2, was.
C15_Witness ==
    /\ hl_pc = "finish"
    /\ hl_rects_found = 2
    /\ hl_hit_this_page = 1
    /\ Len(hl_added) = 1
    /\ hl_added[1].kind = "highlight"
    /\ hl_added[1].rect[1] = 2

\* The sum of a sequence of numbers.
RECURSIVE SumSeq(_)
SumSeq(q) == IF q = <<>> THEN 0 ELSE Head(q) + SumSeq(Tail(q))

\* The pages of the document within the range of a citation, the end page
\* being the start page when it is missing or 0.
EffectiveRange(doc, cit) ==
    LET last == IF TruthyInt(cit.end_page_number) THEN cit.end_page_number[1]
                ELSE cit.start_page_number
    IN  {p \in 1..Len(doc) : cit.start_page_number <= p /\ p <= last}

\* C16: between two pages and on return, the count of every page in per_page is
\* the number of annotations counted on that page over all citations and
\* candidates, exact and fuzzy; a citation that is done has been searched on
\* every page of its effective range; total_highlights is the sum over the pages.
C16_PerPageCounts ==
    /\ hl_pc \in {"loop", "pages", "done"} =>
          \A p \in 1..Len(hl_doc) :
              hl_annots[p] = IF p \in DOMAIN hl_per_page_hits THEN hl_per_page_hits[p]
                             ELSE 0
    /\ (hl_pc = "pages" /\ hl_page_num > hl_end_idx) =>
          hl_searched = EffectiveRange(hl_doc, hl_cit)
    /\ hl_pc = "done" =>
          /\ hl_summary[1].per_page = hl_per_page_hits
          /\ hl_summary[1].total_highlights = SumSeq(hl_annots)

\* Two citations have put two annotations each on page 1 of a two-page
\* document and the summary counts four there.
C16_Witness ==
    /\ hl_pc = "done"
    /\ Len(hl_doc) = 2
    /\ DOMAIN hl_summary[1].per_page = {1, 2}
    /\ hl_summary[1].per_page[1] = 4
    /\ hl_summary[1].total_highlights = 4 + hl_summary[1].per_page[2]

(***************************************************************************)
(* highlight_pdf: the order of the citations                               *)
(***************************************************************************)

\* How often x occurs in the sequence.
CountIn(x, q) == Cardinality({i \in 1..Len(q) : q[i] = x})

\* The two sequences hold the same elements the same number of times.
SameBag(q1, q2) ==
    /\ Len(q1) = Len(q2)
    /\ \A i \in 1..Len(q1) : CountIn(q1[i], q1) = CountIn(q1[i], q2)

\* C17: two calls of highlight_pdf on the same document with the same
\* citations in two orders return the same summary and put the same multiset
\* of annotations on every page.
C17_OrderIndependent ==
    od_pc = "done" =>
        /\ od_second.summary = od_first.summary
        /\ \A p \in 1..Len(od_doc) : SameBag(od_first.annots[p], od_second.annots[p])

\* Two different citations that both annotate page 1 were given in both
\* orders, and page 1 got its annotations in a different order.
C17_Witness ==
    /\ od_pc = "done"
    /\ Len(od_doc) >= 1
    /\ Len(od_cits) = 2
    /\ od_perm = <<2, 1>>
    /\ od_cits[1] # od_cits[2]
    /\ od_first.annots[1] # od_second.annots[1]
    /\ od_first.summary.total_highlights >= 2

(***************************************************************************)
(* _fuzzy_rectangle_highlight: the number of words a block must share      *)
(***************************************************************************)

\* C18: every block the fuzzy matcher has annotated holds at least
\* max(3, ceil(0.6 * n)) of the n target words (the words longer than 3 of the
\* normalized, lower-cased cited text), and each such block got one rectangle.
C18_FuzzyThreshold ==
    (hl_pc = "pages" /\ hl_fuzzy_called) =>
        LET words == LongerThan(FindTokens(LowerText(_normalize_text(hl_cit.cited_text)),
                                           {}), 3)
            n == Len(words)
        IN  \A k \in 1..Len(hl_added) :
                hl_added[k].kind = "rect" =>
                    LET block == hl_doc[hl_page_num][hl_added[k].rect[1]]
                        m == CountWordsIn(words,
                                 LowerText(_normalize_text(SpansText(block.spans))))
                    IN  /\ m >= 3
                        /\ 5 * m >= 3 * n
                        /\ \A j \in 1..Len(hl_added) :
                              hl_added[j].rect = hl_added[k].rect => j = k

\* x.split('\n')[0]
FirstLineOf(x) == SplitOn(x, "\n")[1]

\* What follows the first line of a description, without the line break.
BodyOf(desc) ==
    LStripNewlines(SubSeq(desc, Len(FirstLineOf(desc)) + 1, Len(desc)))

\* The first lines are equal, case ignored.
SameFirstLine(page, desc) ==
    LowerText(FirstLineOf(page)) = LowerText(FirstLineOf(desc))

RECURSIVE StatedBodies(_, _, _)
StatedBodies(page, descriptions, j) ==
    IF j > Len(descriptions) THEN <<>>
    ELSE (IF SameFirstLine(page, descriptions[j]) THEN BodyOf(descriptions[j])
          ELSE <<>>) \o StatedBodies(page, descriptions, j + 1)

\* The chunks of one doc: a chunk per page, then a chunk per description no
\* page has matched.
StatedDocChunks(doc) ==
    LET filename == IF doc.filename = None THEN "unknown" ELSE doc.filename[1]
        pages == SplitOn(IF doc.text = None THEN <<>> ELSE doc.text[1], "\f")
        descs == IF doc.pages_description = None THEN <<>>
                 ELSE doc.pages_description[1]
        free == {j \in 1..Len(descs) :
                    \A i \in 1..Len(pages) : ~SameFirstLine(pages[i], descs[j])}
    IN  [i \in 1..Len(pages) |->
            [content |-> pages[i] \o <<"\n">> \o StatedBodies(pages[i], descs, 1),
             filename |-> filename]]
        \o UnmatchedChunks(descs, (1..Len(descs)) \ free, filename, 1)

RECURSIVE StatedChunks(_)
StatedChunks(docs) ==
    IF docs = <<>> THEN <<>>
    ELSE StatedDocChunks(Head(docs)) \o StatedChunks(Tail(docs))

\* C19: merge_and_chunk with remove_first_page=False gives, for each doc in
\* order, one chunk per form-feed-separated page, holding the page's text and
\* then the body of every description whose first line equals the page's first
\* line case-insensitively, then one chunk per description no page matched, in
\* order; each chunk carries the filename of its doc; no docs give no chunks.
C19_PagesThenUnmatched ==
    (mc_pc = "done" /\ ~mc_remove) => mc_result = StatedChunks(mc_docs)

\* The pages of the text of a doc.
TextPagesOf(doc) == SplitOn(IF doc.text = None THEN <<>> ELSE doc.text[1], "\f")

\* The descriptions of a doc.
DescriptionsOf(doc) ==
    IF doc.pages_description = None THEN <<>> ELSE doc.pages_description[1]

\* The doc without its first page and its first description; for a doc of two
\* pages or more.
Shortened(doc) ==
    [doc EXCEPT !.text = Some(JoinWith(Tail(TextPagesOf(doc)), "\f")),
                !.pages_description =
                    IF DescriptionsOf(doc) = <<>> THEN @
                    ELSE Some(Tail(DescriptionsOf(doc)))]

\* What is left of one doc: merged as without remove_first_page when a page
\* is left, else its descriptions but the first, one chunk each.
ShortenedDocChunks(doc) ==
    IF Len(TextPagesOf(doc)) >= 2 THEN merge_and_chunk(<<Shortened(doc)>>, FALSE)
    ELSE LET rest == IF DescriptionsOf(doc) = <<>> THEN <<>>
                     ELSE Tail(DescriptionsOf(doc))
         IN  [j \in 1..Len(rest) |->
                [content |-> rest[j],
                 filename |-> IF doc.filename = None THEN "unknown"
                              ELSE doc.filename[1]]]

RECURSIVE ShortenedChunks(_)
ShortenedChunks(docs) ==
    IF docs = <<>> THEN <<>>
    ELSE ShortenedDocChunks(Head(docs)) \o ShortenedChunks(Tail(docs))

\* C20: merge_and_chunk with remove_first_page=True drops the first page and
\* the first description of each doc, and nothing else, before merging: the
\* chunks are those of remove_first_page=False on the shortened lists, so
\* none comes from the first page or the first description.
C20_FirstPageAndDescriptionDropped ==
    (mc_pc = "done" /\ mc_remove) => mc_result = ShortenedChunks(mc_docs)

\* Two docs, each of two pages; the first description of the first doc has
\* the title of its second page and is dropped all the same; the only
\* description of the second doc is dropped too.
C20_Witness ==
    /\ mc_pc = "done"
    /\ mc_remove
    /\ Len(mc_docs) = 2
    /\ mc_docs[1].text = Some(<<"x", "\f", "a">>)
    /\ mc_docs[1].pages_description = Some(<<<<" ", "a", "\n", "b">>, <<"a", "\n", "b">>>>)
    /\ mc_docs[2].filename = Some("d2")
    /\ mc_result = <<[content |-> <<"a", "\n", "b">>, filename |-> "d1"],
                     [content |-> <<"a", "\n">>, filename |-> "d2"]>>

\* The lines of a content that, once trimmed, are neither empty nor one or two
\* digits, trimmed, in order.
StatedLines(content) ==
    LET lines == SplitOn(content, "\n")
        keep == {i \in 1..Len(lines) :
                    /\ Strip(lines[i]) # <<>>
                    /\ ~(Len(Strip(lines[i])) <= 2 /\
                         \A j \in 1..Len(Strip(lines[i])) : Strip(lines[i])[j] \in {"1", "2", "3"})}
        Nth(n) == CHOOSE i \in keep : Cardinality({j \in keep : j < i}) = n - 1
    IN  [n \in 1..Cardinality(keep) |-> Strip(lines[Nth(n)])]

\* One piece per piece, in order, with the filename it had.
PieceForPiece ==
    /\ Len(cc_result) = Len(cc_pieces)
    /\ \A i \in 1..Len(cc_pieces) : cc_result[i].filename = cc_pieces[i].filename

NoSlidePhrase(lines) ==
    \A k \in 0..Len(JoinWith(lines, "\n")) : PhraseEnd(JoinWith(lines, "\n"), k) = 0

C22_TrialOrderAndStop ==
    [][LET gen == _candidate_snippets(hl_cit.cited_text)
           tried == Len(gen) - Len(hl_cands)
           hits == hl_hit_this_page' - hl_hit_this_page
           bound == Min(200, Len(_normalize_text(hl_cit.cited_text)))
       IN  /\ (hl_pc = "pages" /\ hl_pc' = "search") => hl_cands' = gen
           /\ (hl_pc = "search" /\ hl_pc' # "error") =>
                /\ hl_cands = SubSeq(gen, tried + 1, Len(gen))
                /\ hl_cands' = SubSeq(gen, tried + 2, Len(gen))
                /\ hits = Len(hl_added')
                /\ \A k \in 1..Len(hl_added') :
                     /\ hl_added'[k].kind = "highlight"
                     /\ \E r \in 1..Len(search_for(hl_doc[hl_page_num + 1], gen[tried + 1])) :
                          search_for(hl_doc[hl_page_num + 1], gen[tried + 1])[r] =
                              hl_added'[k].rect
                /\ (hl_pc' = "finish") =
                     ((hits > 0 /\ Len(gen[tried + 1]) >= bound) \/ tried + 1 = Len(gen))
                /\ hl_pc' \in {"finish", "search"}
           /\ hl_pc = "finish" => hl_pc' # "search"
      ]_vars

\* The text in parentheses on the document of PageWords and PageParen: on page
\* 1 the second candidate alone has hit and all three were tried; on page 2 the
\* first candidate has hit and the two others are left untried.
C22_Witness ==
    /\ hl_pc = "finish"
    /\ hl_doc = <<PageWords, PageParen>>
    /\ hl_cit.cited_text = TextParen
    /\ hl_page_num = 1
    /\ hl_per_page_hits = (1 :> 1)
    /\ hl_hit_this_page = 1
    /\ Len(_candidate_snippets(TextParen)) = 3
    /\ hl_cands = Tail(_candidate_snippets(TextParen))

\* C23: _candidate_snippets returns a list without the empty string and
\* without duplicates, whose first element, when there is one, is the
\* normalized text; the 200-character head and the middle slice are added only
\* when the normalized text is longer than 300; an empty text, or one that
\* normalizes to nothing, gives the empty list.
C23_CandidatesDistinct ==
    cs_pc = "done" =>
        LET norm == _normalize_text(cs_full)
            n == Len(cs_result)
        IN  /\ \A i \in 1..n : cs_result[i] # <<>>
            /\ \A i, j \in 1..n : i # j => cs_result[i] # cs_result[j]
            /\ n >= 1 => cs_result[1] = norm
            /\ (cs_full = <<>> \/ norm = <<>>) <=> n = 0
            /\ Len(norm) <= 300 =>
                  \* nothing but the text, the text stripped of quotes and the
                  \* phrase, which holds no character that is not in a word
                  \A i \in 2..n :
                     \/ cs_result[i] = StripChars(norm, QuoteChars)
                     \/ \A k \in 1..Len(cs_result[i]) :
                           cs_result[i][k] = " " \/ IsWordChar(cs_result[i][k])
            /\ Len(norm) > 300 =>
                  /\ cs_result[2] = SubSeq(norm, 1, 200)
                  /\ n >= 3 /\ Len(cs_result[3]) = 200 =>
                        cs_result[3] = SubSeq(norm, Len(norm) \div 4 + 1, Len(norm) \div 4 + 200)

\* A text of 301 characters whose middle slice differs from its head: the
\* text, its head and its middle slice.
C23_Witness ==
    /\ cs_pc = "done"
    /\ cs_full = TextTwoRuns
    /\ cs_result = <<TextTwoRuns, Rep("x", 100) \o Rep("a", 100), Rep("x", 25) \o Rep("a", 175)>>

\* The citation has an entity type.
HasEntity == hl_cit.entity_type # None /\ hl_cit.entity_type[1] # ""

\* The note holds the entity type of the citation if it has one, then the
\* first 100 characters of the cited text, and "..." exactly when the text is
\* longer than 100.
NoteShowsCitation(note) ==
    /\ note.entity # None <=> HasEntity
    /\ HasEntity => note.entity[1] \in {"METHOD", "RESULT"}
    /\ Len(hl_cit.cited_text) <= 100 => note.preview = hl_cit.cited_text /\ ~note.ellipsis
    /\ Len(hl_cit.cited_text) > 100 =>
          /\ Len(note.preview) = 100
          /\ \A k \in 1..100 : note.preview[k] = hl_cit.cited_text[k]
          /\ note.ellipsis

\* C24: an exact-match annotation has a note exactly when the citation has an
\* entity type or its cited text is longer than 50 characters; the note holds
\* the entity type in brackets if there is one, then the first 100 characters
\* of the cited text, and an ellipsis exactly when the text is longer than 100.
C24_ExactNote ==
    \A k \in 1..Len(hl_added) :
        hl_added[k].kind = "highlight" =>
            /\ hl_added[k].note # None <=> (HasEntity \/ Len(hl_cit.cited_text) > 50)
            /\ hl_added[k].note # None =>
                  /\ ~hl_added[k].note[1].fuzzy
                  /\ NoteShowsCitation(hl_added[k].note[1])

\* The text of 101 characters without entity type, found on the page that
\* holds it: the note is its first 100 characters and the ellipsis.
C24_Witness ==
    /\ hl_pc = "finish"
    /\ hl_cit.cited_text = Text101
    /\ hl_cit.entity_type = None
    /\ Len(hl_added) = 1
    /\ hl_added[1].kind = "highlight"
    /\ hl_added[1].note = Some([fuzzy |-> FALSE, entity |-> None,
                                preview |-> TextFirst(100), ellipsis |-> TRUE])

\* C25: an annotation of the fuzzy block matcher is a rectangle, never a
\* highlight, and always has a note: the fuzzy-match marker, the entity type
\* if there is one, the first 100 characters of the cited text, and an
\* ellipsis exactly when the text is longer than 100.
C25_FuzzyNote ==
    [][(hl_pc = "finish" /\ hl_pc' = "pages") =>
          /\ Len(hl_added') = hl_fuzzy_hits'
          /\ \A k \in 1..Len(hl_added') :
                /\ hl_added'[k].kind = "rect"
                /\ hl_added'[k].note # None
                /\ hl_added'[k].note[1].fuzzy
                /\ NoteShowsCitation(hl_added'[k].note[1])
      ]_vars

\* The text of 101 characters with an entity type, on a page that holds two
\* of its three words: one rectangle, with marker, entity type and ellipsis.
C25_Witness ==
    /\ hl_pc = "pages"
    /\ hl_cit.cited_text = Text101
    /\ hl_cit.entity_type = Some("result")
    /\ Len(hl_doc) >= 1
    /\ hl_doc[1] = PageParaphrase
    /\ hl_fuzzy_hits = 1
    /\ Len(hl_added) = 1
    /\ hl_added[1].kind = "rect"
    /\ hl_added[1].note = Some([fuzzy |-> TRUE, entity |-> Some("RESULT"),
                                preview |-> TextFirst(100), ellipsis |-> TRUE])

\* C26: highlight_pdf parses every citation before it opens the document; when
\* a citation of the list has no page, the call fails with the document
\* unopened, no annotation added and nothing saved, also when well-formed
\* citations precede it in the list.
C26_ParseBeforeOpen ==
    /\ hl_opened => hl_unparsed = 0
    /\ hl_pc = "ValueError" =>
          /\ hl_item # None
          /\ from_generic(hl_item[1])[1] # "ok"
          /\ ~hl_opened
          /\ \A p \in 1..Len(hl_doc) : hl_annots[p] = 0
          /\ hl_added = <<>>
          /\ hl_saved = 0
          /\ hl_summary = None

\* A citation without page after a well-formed one, on a document of two pages.
C26_Witness ==
    /\ hl_pc = "ValueError"
    /\ hl_remaining = 1
    /\ hl_unparsed = 1
    /\ Len(hl_doc) = 2
    /\ hl_item # None
    /\ hl_item[1].start_page_number = None
    /\ ~hl_opened

\* C27: in a run that succeeds the document is saved once, after every
\* citation and page has been processed, and no annotation is added after the
\* save; with no citation at all the document is saved all the same, without
\* annotation, and the summary is total_highlights = 0 with an empty per_page.
C27_SavedOnceAtTheEnd ==
    /\ [][/\ hl_saved' # hl_saved =>
                /\ hl_saved = 0 /\ hl_saved' = 1
                /\ hl_unparsed = 0 /\ hl_remaining = 0 /\ hl_pc = "loop"
                /\ hl_pc' = "done"
                /\ hl_annots' = hl_annots
          /\ hl_saved = 1 => hl_annots' = hl_annots /\ hl_saved' = 1
          /\ hl_pc' = "done" =>
                /\ hl_saved' = 1
                /\ hl_summary' # None
                /\ hl_summary'[1].total_highlights = SumSeq(hl_annots')
       ]_vars
    /\ (hl_unparsed = 0 /\ hl_remaining = 0) =>
          []((hl_pc = "done" \/ (hl_opened /\ hl_pc = "loop")) =>
                /\ \A p \in 1..Len(hl_doc) : hl_annots[p] = 0
                /\ hl_pc = "done" =>
                      /\ hl_saved = 1
                      /\ hl_summary = Some([total_highlights |-> 0, per_page |-> <<>>]))

\* No citation, a document of two pages: saved, nothing annotated.
C27_Witness ==
    /\ hl_pc = "done"
    /\ hl_saved = 1
    /\ hl_cit = NoCitation
    /\ hl_searched = {}
    /\ Len(hl_doc) = 2
    /\ hl_annots = <<0, 0>>
    /\ hl_per_page_hits = <<>>
    /\ hl_summary = Some([total_highlights |-> 0, per_page |-> <<>>])

\* C28: an empty or missing quote is never reported as matched -- whatever the
\* linear text and the page descriptions, it resolves to unmatched with null
\* offsets and null page -- and no quote resolved against an empty linear text
\* gives a match of source text.
C28_EmptyNeverMatches ==
    rq_pc = "done" =>
        /\ rq_quote = <<>> =>
              /\ rq_res.offset_status = "unmatched"
              /\ rq_res.start_offset = None
              /\ rq_res.end_offset = None
              /\ rq_res.page = None
        /\ rq_linear = <<>> =>
              ~(rq_res.offset_status = "matched" /\ rq_res.source = "text")

\* An empty quote resolved against a non-empty linear text and two non-empty
\* page descriptions, every one of them searched.
C28_Witness ==
    /\ rq_pc = "done"
    /\ rq_quote = <<>>
    /\ rq_linear # <<>>
    /\ Len(rq_pages) = 2
    /\ \A i \in 1..2 : rq_pages[i] # <<>>
    /\ rq_calls = <<0, 1, 2>>
    /\ rq_res = UnmatchedRes

\* The description reaches the chunks: a chunk of the file is the description
\* itself, or holds its body after the text of a page.
Reaches(desc, filename, chunks) ==
    \E c \in 1..Len(chunks) :
        /\ chunks[c].filename = filename
        /\ \/ chunks[c].content = desc
           \/ Occurs(chunks[c].content, CleanedDesc(desc))

\* C29: run_pipeline with remove_first_page set, a document of two pages or
\* more: every description the vision analysis has produced for a page from 2
\* on reaches the output of merge_and_chunk.
C29_OnlyFirstPageExcluded ==
    (rp_pc = "done" /\ rp_remove) =>
        \A d \in 1..Len(rp_docs) :
            rp_images[d] >= 2 =>
                \A k \in 1..Len(rp_analyzed[d]) :
                    LET desc == rp_docs[d].pages_description[1][k]
                    IN  (rp_analyzed[d][k] >= 2 /\ desc # <<>>) =>
                            Reaches(desc, PdfName(d), rp_pieces)

\* C30: the list run_concurrently returns holds, at position i, the result of
\* the i-th callable submitted, one per callable, whatever the order in which
\* the workers finish and whatever max_workers >= 1; and the call ends only
\* when every callable has finished.
C30_ResultsInSubmissionOrder ==
    /\ rc_pc = "returned" =>
          /\ Len(rc_results) = rc_n
          /\ \A i \in 1..rc_n : rc_results[i] = ResultOf(i)
    /\ rc_pc \in {"returned", "raised"} =>
          /\ Len(rc_futures) = rc_n
          /\ \A i \in 1..rc_n : rc_futures[i].state = "finished"
          /\ Len(rc_finished) = rc_n

\* Three callables on two workers: the second finishes first, the first last,
\* and as_completed yields them in yet another order.
C30_Witness ==
    /\ rc_pc = "returned"
    /\ rc_n = 3
    /\ rc_max_workers = 2
    /\ rc_finished = <<2, 3, 1>>
    /\ rc_yielded = <<3, 2, 1>>
    /\ rc_results = <<ResultOf(1), ResultOf(2), ResultOf(3)>>

====
